---- MODULE Spec2Model ----
(***************************************************************************)
(* A model of the vanilla-shell interpreter: Lexer -> Parser -> Shell      *)
(* (tree-walking evaluator), translated from src/unnamed/part_015 (lexer), *)
(* src/src/parser/parser.ts and src/src/shell/shell.ts.                    *)
(*                                                                         *)
(* Strings of the program are modelled as sequences of one-character       *)
(* strings (<<"c","d">> is the text "cd"), so that indexing, splitting and *)
(* concatenation are computed as the code computes them.  A fixed message  *)
(* literal of the code ("mrsh: ", ": command not found\n") is one element. *)
(***************************************************************************)
EXTENDS Integers, Sequences, FiniteSets, TLC

(***************************************************************************)
(* Character classes                                                       *)
(***************************************************************************)
\* the backquote character (it cannot be written inside a TLA+ string)
BQ == "<backquote>"

Digits == {"0","1","2","3","4","5","6","7","8","9"}

Letters ==
  {"a","b","c","d","e","f","g","h","i","j","k","l","m","n","o","p","q","r",
   "s","t","u","v","w","x","y","z","A","B","C","D","E","F","G","H","I","J",
   "K","L","M","N","O","P","Q","R","S","T","U","V","W","X","Y","Z","_"}

\* /[a-zA-Z0-9_]/
IsNameChar(ch) == ch \in Letters \cup Digits

\* const special = '@*#?-$!0123456789'
SpecialParams == {"@","*","#","?","-","$","!"} \cup Digits

\* Number.prototype.toString() for the integers the model meets
DigitOf(d) ==
  CASE d = 0 -> "0" [] d = 1 -> "1" [] d = 2 -> "2" [] d = 3 -> "3"
    [] d = 4 -> "4" [] d = 5 -> "5" [] d = 6 -> "6" [] d = 7 -> "7"
    [] d = 8 -> "8" [] OTHER -> "9"

RECURSIVE DecNat(_)
DecNat(n) == IF n < 10 THEN <<DigitOf(n)>> ELSE DecNat(n \div 10) \o <<DigitOf(n % 10)>>

toStr(n) == IF n < 0 THEN <<"-">> \o DecNat(0 - n) ELSE DecNat(n)

\* execute() calls of the alias branch that one execute() call may nest
\* before it is cut off
MaxReexecute == 2

(***************************************************************************)
(* Lexer (src/unnamed/part_015)                                            *)
(***************************************************************************)
OPERATORS ==
  << <<"&","&">>, <<"|","|">>, <<";",";">>, <<"<","<","-">>, <<"<","<">>,
     <<">",">">>, <<"<","&">>, <<">","&">>, <<"<",">">>, <<">","|">>,
     <<"|">>, <<"&">>, <<";">>, <<"<">>, <<">">>, <<"(">>, <<")">>,
     <<"{">>, <<"}">>, <<"\n">> >>

RESERVED_WORDS ==
  { <<"i","f">>, <<"t","h","e","n">>, <<"e","l","s","e">>, <<"e","l","i","f">>,
    <<"f","i">>, <<"d","o">>, <<"d","o","n","e">>, <<"c","a","s","e">>,
    <<"e","s","a","c">>, <<"w","h","i","l","e">>, <<"u","n","t","i","l">>,
    <<"f","o","r">>, <<"i","n">>, <<"!">>, <<"{">>, <<"}">> }

isReservedWord(word) == word \in RESERVED_WORDS

\* Lexer.peek: this.input[this.pos + ahead] || ''   (pos is 0-based)
peek(input, pos, ahead) ==
  IF pos + ahead < Len(input) THEN input[pos + ahead + 1] ELSE ""

\* the metacharacters of isMetacharacter
Metacharacters ==
  {"|","&",";","<",">","(",")","$",BQ,"\\","\"","'"," ","\t","\n"}

isMetacharacter(ch) == ch \in Metacharacters

\* where a loop `while (this.pos < this.input.length)` that advances over
\* every character outside stops leaves pos: at the first character of
\* stops at or after pos, or at the end of the input
scanTo(input, pos, stops) ==
  LET hits == {k \in pos..(Len(input) - 1) : input[k + 1] \in stops}
  IN IF hits = {} THEN (IF pos > Len(input) THEN pos ELSE Len(input))
     ELSE CHOOSE k \in hits : \A j \in hits : k <= j

\* likewise for a loop that advances over the characters of keep
scanPast(input, pos, keep) ==
  LET hits == {k \in pos..(Len(input) - 1) : input[k + 1] \notin keep}
  IN IF hits = {} THEN (IF pos > Len(input) THEN pos ELSE Len(input))
     ELSE CHOOSE k \in hits : \A j \in hits : k <= j

RECURSIVE skipWhitespace(_, _)
skipWhitespace(input, pos) ==
  IF pos >= Len(input) THEN pos
  ELSE LET ch == peek(input, pos, 0) IN
       IF ch = " " \/ ch = "\t" THEN skipWhitespace(input, pos + 1)
       ELSE IF ch = "\\" /\ peek(input, pos, 1) = "\n"
            THEN skipWhitespace(input, pos + 2)
            ELSE pos

skipToEol(input, pos) == scanTo(input, pos, {"\n"})

skipComment(input, pos) ==
  IF peek(input, pos, 0) = "#" THEN skipToEol(input, pos) ELSE pos

opMatches(input, pos, op) ==
  \A i \in 1..Len(op) : peek(input, pos, i - 1) = op[i]

\* the index in OPERATORS of the first operator matching at pos, 0 if none
readOperator(input, pos) ==
  LET hits == { k \in 1..Len(OPERATORS) : opMatches(input, pos, OPERATORS[k]) }
  IN IF hits = {} THEN 0
     ELSE CHOOSE k \in hits : \A j \in hits : k <= j

\* the quote readers return the text read and the position after it
readSingleQuotedLoop(input, pos, result) ==
  LET end == scanTo(input, pos, {"'"}) IN
  IF end < Len(input)
  THEN [value |-> result \o SubSeq(input, pos + 1, end + 1), pos |-> end + 1]
  ELSE [value |-> result \o SubSeq(input, pos + 1, Len(input)), pos |-> end]

readSingleQuotedString(input, pos) ==
  readSingleQuotedLoop(input, pos + 1, <<"'">>)

RECURSIVE readDoubleQuotedLoop(_, _, _)
readDoubleQuotedLoop(input, pos, result) ==
  IF pos < Len(input)
  THEN LET ch == peek(input, pos, 0) IN
       IF ch = "\\"
       THEN IF pos + 1 < Len(input)
            THEN readDoubleQuotedLoop(input, pos + 2,
                                      result \o <<ch, peek(input, pos, 1)>>)
            ELSE readDoubleQuotedLoop(input, pos + 1, result \o <<ch>>)
       ELSE IF ch = "\""
            THEN [value |-> result \o <<ch>>, pos |-> pos + 1]
            ELSE readDoubleQuotedLoop(input, pos + 1, result \o <<ch>>)
  ELSE [value |-> result, pos |-> pos]

readDoubleQuotedString(input, pos) ==
  readDoubleQuotedLoop(input, pos + 1, <<"\"">>)

\* $(( ... )) : copy characters until the parenthesis depth returns to 0
RECURSIVE readArithLoop(_, _, _, _)
readArithLoop(input, pos, depth, result) ==
  IF pos < Len(input) /\ depth > 0
  THEN LET ch == peek(input, pos, 0)
           d  == IF ch = "(" THEN depth + 1
                 ELSE IF ch = ")" THEN depth - 1 ELSE depth
       IN readArithLoop(input, pos + 1, d, result \o <<ch>>)
  ELSE [value |-> result, pos |-> pos]

\* $( ... ) : as above, but quoted strings are read by the quote readers
RECURSIVE readCmdSubLoop(_, _, _, _)
readCmdSubLoop(input, pos, depth, result) ==
  IF pos < Len(input) /\ depth > 0
  THEN LET ch == peek(input, pos, 0)
           d  == IF ch = "(" THEN depth + 1
                 ELSE IF ch = ")" THEN depth - 1 ELSE depth
       IN IF ch = "'"
          THEN LET q == readSingleQuotedString(input, pos)
               IN readCmdSubLoop(input, q.pos, d, result \o q.value)
          ELSE IF ch = "\""
          THEN LET q == readDoubleQuotedString(input, pos)
               IN readCmdSubLoop(input, q.pos, d, result \o q.value)
          ELSE readCmdSubLoop(input, pos + 1, d, result \o <<ch>>)
  ELSE [value |-> result, pos |-> pos]

readBraceLoop(input, pos, result) ==
  LET end == scanTo(input, pos, {"}"}) IN
  IF end < Len(input)
  THEN [value |-> result \o SubSeq(input, pos + 1, end + 1), pos |-> end + 1]
  ELSE [value |-> result \o SubSeq(input, pos + 1, Len(input)), pos |-> end]

readNameLoop(input, pos, result) ==
  LET end == scanPast(input, pos, Letters \cup Digits) IN
  [value |-> result \o SubSeq(input, pos + 1, end), pos |-> end]

\* pos is at the '$'
readParameter(input, pos) ==
  IF peek(input, pos, 1) = "("
  THEN IF peek(input, pos, 2) = "("
       THEN readArithLoop(input, pos + 3, 2, <<"$","(","(">>)
       ELSE readCmdSubLoop(input, pos + 2, 1, <<"$","(">>)
  ELSE IF peek(input, pos, 1) = "{"
  THEN readBraceLoop(input, pos + 2, <<"$","{">>)
  ELSE IF peek(input, pos, 1) = ""
  THEN \* special.includes('') is true and advance() moves past the end
       [value |-> <<"$">>, pos |-> pos + 2]
  ELSE IF peek(input, pos, 1) \in SpecialParams
  THEN [value |-> <<"$", peek(input, pos, 1)>>, pos |-> pos + 2]
  ELSE readNameLoop(input, pos + 1, <<"$">>)

RECURSIVE readBackquoteLoop(_, _, _)
readBackquoteLoop(input, pos, result) ==
  IF pos < Len(input) /\ peek(input, pos, 0) # BQ
  THEN IF peek(input, pos, 0) = "\\"
       THEN IF pos + 1 < Len(input)
            THEN readBackquoteLoop(input, pos + 2,
                                   result \o <<"\\", peek(input, pos, 1)>>)
            ELSE readBackquoteLoop(input, pos + 1, result \o <<"\\">>)
       ELSE readBackquoteLoop(input, pos + 1, result \o <<peek(input, pos, 0)>>)
  ELSE IF peek(input, pos, 0) = BQ
       THEN [value |-> result \o <<BQ>>, pos |-> pos + 1]
       ELSE [value |-> result, pos |-> pos]

readBackquote(input, pos) == readBackquoteLoop(input, pos + 1, <<BQ>>)

RECURSIVE readWordLoop(_, _, _)
readWordLoop(input, pos, value) ==
  IF pos < Len(input)
  THEN LET ch == peek(input, pos, 0) IN
       IF ch = "'"
       THEN LET q == readSingleQuotedString(input, pos)
            IN readWordLoop(input, q.pos, value \o q.value)
       ELSE IF ch = "\""
       THEN LET q == readDoubleQuotedString(input, pos)
            IN readWordLoop(input, q.pos, value \o q.value)
       ELSE IF ch = "\\"
       THEN IF pos + 1 < Len(input) /\ peek(input, pos, 1) # "\n"
            THEN readWordLoop(input, pos + 2, value \o <<ch, peek(input, pos, 1)>>)
            ELSE IF peek(input, pos, 1) = "\n"
                 THEN readWordLoop(input, pos + 2, value \o <<ch>>)
                 ELSE readWordLoop(input, pos + 1, value \o <<ch>>)
       ELSE IF ch = "$"
       THEN LET q == readParameter(input, pos)
            IN readWordLoop(input, q.pos, value \o q.value)
       ELSE IF ch = BQ
       THEN LET q == readBackquote(input, pos)
            IN readWordLoop(input, q.pos, value \o q.value)
       ELSE IF isMetacharacter(ch)
       THEN [value |-> value, pos |-> pos]
       ELSE \* the iterations up to the next metacharacter append one
            \* character each
            LET end == scanTo(input, pos, Metacharacters)
            IN readWordLoop(input, end, value \o SubSeq(input, pos + 1, end))
  ELSE [value |-> value, pos |-> pos]

readWord(input, pos) == readWordLoop(input, pos, <<>>)

\* Lexer.advance counts a line for every "\n" it consumes
lineAt(input, pos) ==
  1 + Cardinality({k \in 1..Len(input) : k <= pos /\ input[k] = "\n"})

\* the token read at pos; next is the lexer position after it
nextToken(input, pos0) ==
  LET pos == skipWhitespace(input, skipComment(input, skipWhitespace(input, pos0)))
      ln  == lineAt(input, pos)
  IN IF pos >= Len(input)
     THEN [type |-> "eof", value |-> <<>>, offset |-> pos, line |-> ln, next |-> pos]
     ELSE IF peek(input, pos, 0) \in Digits /\ peek(input, pos, 1) \in {"<", ">"}
     THEN [type |-> "io_number", value |-> <<peek(input, pos, 0)>>,
           offset |-> pos, line |-> ln, next |-> pos + 1]
     ELSE LET k == readOperator(input, pos) IN
          IF k # 0
          THEN [type |-> IF OPERATORS[k] = <<"\n">> THEN "newline" ELSE "operator",
                value |-> OPERATORS[k], offset |-> pos, line |-> ln,
                next |-> pos + Len(OPERATORS[k])]
          ELSE LET w == readWord(input, pos)
               IN [type |-> "word", value |-> w.value, offset |-> pos,
                   line |-> ln, next |-> w.pos]

RECURSIVE tokenizeFrom(_, _)
tokenizeFrom(input, pos) ==
  LET t == nextToken(input, pos) IN
  IF t.type = "eof" THEN <<t>> ELSE <<t>> \o tokenizeFrom(input, t.next)

tokenize(input) == tokenizeFrom(input, 0)

(***************************************************************************)
(* Parser: words (src/src/parser/parser.ts, parseWordValue and below)      *)
(***************************************************************************)
\* const x = e; ... : e is computed once, before the rest, and named x in
\* the rest (the comparison makes the evaluation of e come first)
Let(e, F(_)) == IF e = e THEN F(e) ELSE F(e)

\* value[i] of the code (0-based); "" stands for undefined
charAt(value, i) == IF i >= 0 /\ i < Len(value) THEN value[i + 1] ELSE ""

\* value.includes(ch)
includes(value, ch) == \E k \in 1..Len(value) : value[k] = ch

\* value.indexOf(ch), 0-based, -1 when absent
indexOf(value, ch) ==
  IF includes(value, ch)
  THEN (CHOOSE k \in 1..Len(value) :
          value[k] = ch /\ \A j \in 1..(k - 1) : value[j] # ch) - 1
  ELSE -1

\* value.substring(from) and value.substring(from, to), 0-based
substringFrom(value, from) == SubSeq(value, from + 1, Len(value))
substring(value, from, to) == SubSeq(value, from + 1, to)

createWordString(value, singleQuoted) ==
  [type |-> "string", value |-> value, singleQuoted |-> singleQuoted]

NoWord == createWordString(<<>>, FALSE)

\* $(( ... )) and $( ... ) inside a word: the body text up to depth 0.  For
\* $( ... ) and for backquotes the parser computes the body and stores no
\* program; the word of the model keeps the body as text, which nothing in
\* the evaluator reads.  Likewise the word of $(( ... )) keeps as text what
\* stands between $(( and the last two characters scanned, and as closed
\* whether these are )).
RECURSIVE parenBodyLoop(_, _, _, _)
parenBodyLoop(value, i, depth, body) ==
  IF i < Len(value) /\ depth > 0
  THEN LET ch == charAt(value, i)
           d  == IF ch = "(" THEN depth + 1
                 ELSE IF ch = ")" THEN depth - 1 ELSE depth
       IN parenBodyLoop(value, i + 1, d, IF d > 0 THEN body \o <<ch>> ELSE body)
  ELSE [body |-> body, end |-> i]

nameLoop(value, i, name) ==
  LET end == scanPast(value, i, Letters \cup Digits) IN
  [name |-> name \o SubSeq(value, i + 1, end), end |-> end]

untilBraceLoop(value, i, arg) ==
  LET end == scanTo(value, i, {"}"}) IN
  [arg |-> arg \o SubSeq(value, i + 1, end), end |-> end]

WordParameter(name, op, colon, hasArg, arg) ==
  [type |-> "parameter", name |-> name, op |-> op, colon |-> colon,
   hasArg |-> hasArg, arg |-> arg]

\* the ${ ... } branch of parseParameterFromString; i0 is just after "${"
parseBraceParameter(value, i0) ==
  Let(charAt(value, i0) = "#" /\ charAt(value, i0 + 1) # "}"
        /\ (charAt(value, i0 + 1) = "" \/ IsNameChar(charAt(value, i0 + 1))),
      LAMBDA lead :
  Let(nameLoop(value, IF lead THEN i0 + 1 ELSE i0, <<>>), LAMBDA nm :
  Let(nm.end < Len(value) /\ charAt(value, nm.end) # "}", LAMBDA hasOp :
  Let(hasOp /\ charAt(value, nm.end) = ":", LAMBDA colon :
  Let(IF colon THEN nm.end + 1 ELSE nm.end, LAMBDA i3 :
  Let(charAt(value, i3), LAMBDA c :
  Let(hasOp /\ i3 < Len(value), LAMBDA inSwitch :
  Let(IF ~inSwitch THEN (IF lead THEN "leading_hash" ELSE "none")
      ELSE IF c = "-" THEN "minus"
      ELSE IF c = "=" THEN "equal"
      ELSE IF c = "?" THEN "qmark"
      ELSE IF c = "+" THEN "plus"
      ELSE IF c = "%" THEN (IF charAt(value, i3 + 1) = "%" THEN "dpercent" ELSE "percent")
      ELSE IF c = "#" THEN (IF charAt(value, i3 + 1) = "#" THEN "dhash" ELSE "hash")
      ELSE IF lead THEN "leading_hash" ELSE "none",
      LAMBDA op :
  Let(IF ~inSwitch THEN i3
      ELSE IF c \in {"-", "=", "?", "+"} THEN i3 + 1
      ELSE IF c = "%" THEN (IF charAt(value, i3 + 1) = "%" THEN i3 + 2 ELSE i3 + 1)
      ELSE IF c = "#" THEN (IF charAt(value, i3 + 1) = "#" THEN i3 + 2 ELSE i3 + 1)
      ELSE i3,
      LAMBDA i4 :
  Let(IF inSwitch THEN untilBraceLoop(value, i4, <<>>) ELSE [arg |-> <<>>, end |-> i4],
      LAMBDA ar :
    [word |-> WordParameter(nm.name, op, colon, ar.arg # <<>>,
                            createWordString(ar.arg, FALSE)),
     end |-> IF charAt(value, ar.end) = "}" THEN ar.end + 1 ELSE ar.end]))))))))))

\* start is the index of the '$'
parseParameterFromString(value, start) ==
  LET i  == start + 1
      ch == charAt(value, i)
  IN IF i >= Len(value)
     THEN [word |-> createWordString(<<"$">>, FALSE), end |-> i]
     ELSE IF ch = "("
     THEN IF charAt(value, i + 1) = "("
          THEN Let(parenBodyLoop(value, i + 2, 2, <<>>), LAMBDA b :
                 [word |-> [type |-> "arithmetic",
                            body |-> createWordString(b.body, FALSE),
                            text |-> substring(value, i + 2, b.end - 2),
                            closed |-> substring(value, b.end - 2, b.end) = <<")", ")">>],
                  end |-> b.end])
          ELSE Let(parenBodyLoop(value, i + 1, 1, <<>>), LAMBDA b :
                 [word |-> [type |-> "command", hasProgram |-> FALSE,
                            backQuoted |-> FALSE, text |-> b.body],
                  end |-> b.end])
     ELSE IF ch = "{"
     THEN parseBraceParameter(value, i + 1)
     ELSE IF ch \in SpecialParams
     THEN [word |-> WordParameter(<<ch>>, "none", FALSE, FALSE, NoWord),
           end |-> i + 1]
     ELSE Let(nameLoop(value, i, <<>>), LAMBDA nm :
            IF nm.name = <<>>
            THEN [word |-> createWordString(<<"$">>, FALSE), end |-> nm.end]
            ELSE [word |-> WordParameter(nm.name, "none", FALSE, FALSE, NoWord),
                  end |-> nm.end])

RECURSIVE backquoteLoop(_, _, _)
backquoteLoop(value, i, body) ==
  IF i < Len(value) /\ charAt(value, i) # BQ
  THEN IF charAt(value, i) = "\\"
       THEN IF i + 1 < Len(value)
            THEN backquoteLoop(value, i + 2, body \o <<charAt(value, i + 1)>>)
            ELSE backquoteLoop(value, i + 1, body)
       ELSE backquoteLoop(value, i + 1, body \o <<charAt(value, i)>>)
  ELSE [body |-> body, end |-> IF i < Len(value) THEN i + 1 ELSE i]

parseBackquoteFromString(value, start) ==
  Let(backquoteLoop(value, start + 1, <<>>), LAMBDA b :
    [word |-> [type |-> "command", hasProgram |-> FALSE, backQuoted |-> TRUE,
               text |-> b.body],
     end |-> b.end])

singleQuoteLoop(value, i, quoted) ==
  LET end == scanTo(value, i, {"'"}) IN
  [quoted |-> quoted \o SubSeq(value, i + 1, end), end |-> end + 1]

\* flushCurrent()
flush(children, current) ==
  IF current # <<>> THEN Append(children, createWordString(current, FALSE))
  ELSE children

RECURSIVE complexLoop(_, _, _, _, _)
complexLoop(value, i, children, current, inDoubleQuote) ==
  IF i < Len(value)
  THEN LET ch == charAt(value, i) IN
       IF ch = "'" /\ ~inDoubleQuote
       THEN Let(singleQuoteLoop(value, i + 1, <<>>), LAMBDA q :
              complexLoop(value, q.end,
                          Append(flush(children, current),
                                 createWordString(q.quoted, TRUE)),
                          <<>>, inDoubleQuote))
       ELSE IF ch = "\""
       THEN complexLoop(value, i + 1, flush(children, current), <<>>, ~inDoubleQuote)
       ELSE IF ch = "$"
       THEN Let(parseParameterFromString(value, i), LAMBDA p :
              complexLoop(value, p.end, Append(flush(children, current), p.word),
                          <<>>, inDoubleQuote))
       ELSE IF ch = BQ /\ ~inDoubleQuote
       THEN Let(parseBackquoteFromString(value, i), LAMBDA p :
              complexLoop(value, p.end, Append(flush(children, current), p.word),
                          <<>>, inDoubleQuote))
       ELSE IF ch = "\\"
       THEN IF i + 1 < Len(value)
            THEN complexLoop(value, i + 2, children,
                             current \o <<charAt(value, i + 1)>>, inDoubleQuote)
            ELSE complexLoop(value, i + 1, children, current, inDoubleQuote)
       ELSE \* the iterations up to the next character with a branch of its
            \* own append one character each
            LET end == scanTo(value, i, IF inDoubleQuote THEN {"\"", "$", "\\"}
                                        ELSE {"'", "\"", "$", BQ, "\\"})
            IN complexLoop(value, end, children,
                           current \o SubSeq(value, i + 1, end), inDoubleQuote)
  ELSE flush(children, current)

parseComplexWord(value) ==
  Let(complexLoop(value, 0, <<>>, <<>>, FALSE), LAMBDA children :
    IF Len(children) = 1 THEN children[1]
    ELSE [type |-> "list", children |-> children])

parseWordValue(value) ==
  IF includes(value, "$") \/ includes(value, BQ) \/ includes(value, "\"")
     \/ includes(value, "'")
  THEN parseComplexWord(value)
  ELSE createWordString(value, FALSE)

(***************************************************************************)
(* Parser: commands (src/src/parser/parser.ts)                             *)
(*                                                                         *)
(* tk is the token sequence of the lexer (its last element is EOF) and i   *)
(* the index of currentToken.  A parse function returns a record: err with *)
(* msg when it throws, otherwise the index after what it consumed and, if  *)
(* has, the node it built (has = FALSE is the code's null).                *)
(***************************************************************************)
Err(msg)     == [err |-> TRUE, msg |-> msg, i |-> 0, has |-> FALSE, node |-> <<>>]
Ok(i, node)  == [err |-> FALSE, msg |-> <<>>, i |-> i, has |-> TRUE, node |-> node]
None(i)      == [err |-> FALSE, msg |-> <<>>, i |-> i, has |-> FALSE, node |-> <<>>]


\* this.currentToken; the lexer keeps returning EOF at the end
\* the reserved words the parser tests for
KW ==
  [if |-> <<"i","f">>,
   then |-> <<"t","h","e","n">>,
   else |-> <<"e","l","s","e">>,
   elif |-> <<"e","l","i","f">>,
   fi |-> <<"f","i">>,
   do |-> <<"d","o">>,
   done |-> <<"d","o","n","e">>,
   case |-> <<"c","a","s","e">>,
   esac |-> <<"e","s","a","c">>,
   while |-> <<"w","h","i","l","e">>,
   until |-> <<"u","n","t","i","l">>,
   for |-> <<"f","o","r">>,
   in |-> <<"i","n">>]

cur(tk, i) == IF i <= Len(tk) THEN tk[i] ELSE tk[Len(tk)]

match(tk, i, type) == cur(tk, i).type = type

matchValue(tk, i, type, value) ==
  cur(tk, i).type = type /\ cur(tk, i).value = value

expect(tk, i, type) ==
  IF cur(tk, i).type # type
  THEN Err(<<"Expected ", type, ", got ", cur(tk, i).type, " at line ">>
           \o toStr(cur(tk, i).line))
  ELSE Ok(i + 1, cur(tk, i))

expectValue(tk, i, type, value) ==
  IF cur(tk, i).type # type
  THEN Err(<<"Expected ", type, ", got ", cur(tk, i).type, " at line ">>
           \o toStr(cur(tk, i).line))
  ELSE IF cur(tk, i).value # value
  THEN Err(<<"Expected '">> \o value \o <<"', got '">> \o cur(tk, i).value
           \o <<"' at line ">> \o toStr(cur(tk, i).line))
  ELSE Ok(i + 1, cur(tk, i))

RECURSIVE linebreak(_, _)
linebreak(tk, i) == IF match(tk, i, "newline") THEN linebreak(tk, i + 1) ELSE i

parseWord(tk, i) ==
  IF ~match(tk, i, "word") THEN None(i)
  ELSE Ok(i + 1, parseWordValue(cur(tk, i).value))

\* /^[a-zA-Z_][a-zA-Z0-9_]*$/
isIdentifier(name) ==
  /\ Len(name) >= 1
  /\ name[1] \in Letters
  /\ \A k \in 2..Len(name) : IsNameChar(name[k])

parseAssignment(tk, i) ==
  IF ~match(tk, i, "word") THEN None(i)
  ELSE LET word == cur(tk, i).value IN
       Let(indexOf(word, "="), LAMBDA eqIndex :
         IF eqIndex <= 0 THEN None(i)
         ELSE IF ~isIdentifier(substring(word, 0, eqIndex)) THEN None(i)
         ELSE Ok(i + 1, [name  |-> substring(word, 0, eqIndex),
                         value |-> createWordString(substringFrom(word, eqIndex + 1),
                                                    FALSE)]))

RedirectOps ==
  { <<"<">>, <<">">>, <<">",">">>, <<"<","&">>, <<">","&">>, <<"<",">">>,
    <<">","|">>, <<"<","<">>, <<"<","<","-">> }

parseIoRedirect(tk, i0) ==
  LET hasNum   == match(tk, i0, "io_number")
      \* parseInt of one decimal digit
      ioNumber == IF hasNum
                  THEN CHOOSE n \in 0..9 : DigitOf(n) = cur(tk, i0).value[1]
                  ELSE -1
      i        == IF hasNum THEN i0 + 1 ELSE i0
      isOp     == match(tk, i, "operator") /\ cur(tk, i).value \in RedirectOps
  IN IF ~isOp THEN None(i)
     ELSE IF ~match(tk, i + 1, "word")
     THEN Err(<<"Expected word after IO redirect operator">>)
     ELSE Ok(i + 2, [ioNumber |-> ioNumber, op |-> cur(tk, i).value,
                     name |-> parseWordValue(cur(tk, i + 1).value)])

\* the prefix loop of parseSimpleCommand: (redirect | assignment)*
RECURSIVE prefixLoop(_, _, _, _)
prefixLoop(tk, i, redirects, assignments) ==
  Let(parseIoRedirect(tk, i), LAMBDA r :
    IF r.err THEN r
    ELSE IF r.has THEN prefixLoop(tk, r.i, Append(redirects, r.node), assignments)
    ELSE Let(parseAssignment(tk, r.i), LAMBDA a :
           IF a.has THEN prefixLoop(tk, a.i, redirects, Append(assignments, a.node))
           ELSE Ok(a.i, [redirects |-> redirects, assignments |-> assignments])))

\* the suffix loop of parseSimpleCommand: (redirect | argument)*
RECURSIVE suffixLoop(_, _, _, _)
suffixLoop(tk, i, redirects, args) ==
  Let(parseIoRedirect(tk, i), LAMBDA r :
    IF r.err THEN r
    ELSE IF r.has THEN suffixLoop(tk, r.i, Append(redirects, r.node), args)
    ELSE IF match(tk, r.i, "word") /\ ~isReservedWord(cur(tk, r.i).value)
         THEN suffixLoop(tk, r.i + 1, redirects,
                         Append(args, parseWordValue(cur(tk, r.i).value)))
         ELSE Ok(r.i, [redirects |-> redirects, args |-> args]))

createSimpleCommand(hasName, name, args, redirects, assignments) ==
  [type |-> "simple", hasName |-> hasName, name |-> name, arguments |-> args,
   redirects |-> redirects, assignments |-> assignments]

parseSimpleCommand(tk, i) ==
  Let(prefixLoop(tk, i, <<>>, <<>>), LAMBDA pre :
    IF pre.err THEN pre
    ELSE LET hasName == match(tk, pre.i, "word") /\ ~isReservedWord(cur(tk, pre.i).value)
             name    == IF hasName THEN parseWordValue(cur(tk, pre.i).value) ELSE NoWord
             i1      == IF hasName THEN pre.i + 1 ELSE pre.i
         IN IF ~hasName /\ pre.node.assignments = <<>> /\ pre.node.redirects = <<>>
            THEN None(i1)
            ELSE Let(suffixLoop(tk, i1, pre.node.redirects, <<>>), LAMBDA suf :
                   IF suf.err THEN suf
                   ELSE Ok(suf.i, createSimpleCommand(hasName, name, suf.node.args,
                                                      suf.node.redirects,
                                                      pre.node.assignments))))

RECURSIVE parseCommandList(_, _), parseAndOrList(_, _), andOrLoop(_, _, _),
          parsePipeline(_, _), pipeLoop(_, _, _), parseCommand(_, _),
          parseCompoundList(_, _), compoundLoop(_, _, _), parseBraceGroup(_, _),
          parseSubshell(_, _), parseIfClause(_, _), parseForClause(_, _),
          parseLoopClause(_, _, _), parseCaseClause(_, _), caseItemsLoop(_, _, _),
          patternLoop(_, _, _), forWordsLoop(_, _, _)

parseCommandList(tk, i) ==
  Let(parseAndOrList(tk, i), LAMBDA a :
    IF a.err \/ ~a.has THEN a
    ELSE IF matchValue(tk, a.i, "operator", <<"&">>)
         THEN Ok(a.i + 1, [andOrList |-> a.node, async |-> TRUE])
         ELSE Ok(a.i, [andOrList |-> a.node, async |-> FALSE]))

parseAndOrList(tk, i) ==
  Let(parsePipeline(tk, i), LAMBDA first :
    IF first.err \/ ~first.has THEN first
    ELSE andOrLoop(tk, first.i, [first |-> first.node, rest |-> <<>>]))

andOrLoop(tk, i, list) ==
  LET type == IF matchValue(tk, i, "operator", <<"&","&">>) THEN "and"
              ELSE IF matchValue(tk, i, "operator", <<"|","|">>) THEN "or"
              ELSE "none"
  IN IF type = "none" THEN Ok(i, list)
     ELSE Let(parsePipeline(tk, linebreak(tk, i + 1)), LAMBDA p :
            IF p.err THEN p
            ELSE IF ~p.has THEN Err(<<"Expected pipeline after && or ||">>)
            ELSE andOrLoop(tk, p.i,
                           [list EXCEPT !.rest =
                              Append(@, [type |-> type, pipeline |-> p.node])]))

parsePipeline(tk, i) ==
  LET negation == matchValue(tk, i, "word", <<"!">>) IN
  Let(parseCommand(tk, IF negation THEN i + 1 ELSE i), LAMBDA first :
    IF first.err THEN first
    ELSE IF ~first.has
    THEN IF negation THEN Err(<<"Expected command after !">>) ELSE first
    ELSE pipeLoop(tk, first.i, [negation |-> negation, commands |-> <<first.node>>]))

pipeLoop(tk, i, pipeline) ==
  IF ~matchValue(tk, i, "operator", <<"|">>) THEN Ok(i, pipeline)
  ELSE Let(parseCommand(tk, linebreak(tk, i + 1)), LAMBDA c :
         IF c.err THEN c
         ELSE IF ~c.has THEN Err(<<"Expected command after |">>)
         ELSE pipeLoop(tk, c.i, [pipeline EXCEPT !.commands = Append(@, c.node)]))

parseCommand(tk, i) ==
  IF matchValue(tk, i, "operator", <<"{">>) THEN parseBraceGroup(tk, i)
  ELSE IF matchValue(tk, i, "operator", <<"(">>) THEN parseSubshell(tk, i)
  ELSE IF matchValue(tk, i, "word", KW.if) THEN parseIfClause(tk, i)
  ELSE IF matchValue(tk, i, "word", KW.for) THEN parseForClause(tk, i)
  ELSE IF matchValue(tk, i, "word", KW.while) THEN parseLoopClause(tk, i, FALSE)
  ELSE IF matchValue(tk, i, "word", KW.until) THEN parseLoopClause(tk, i, TRUE)
  ELSE IF matchValue(tk, i, "word", KW.case) THEN parseCaseClause(tk, i)
  ELSE parseSimpleCommand(tk, i)

CompoundClosers == {KW.then, KW.else, KW.elif, KW.fi, KW.do, KW.done, KW.esac}

parseCompoundList(tk, i) == compoundLoop(tk, linebreak(tk, i), <<>>)

compoundLoop(tk, i, commands) ==
  IF match(tk, i, "eof") THEN Ok(i, commands)
  ELSE IF \/ matchValue(tk, i, "operator", <<"}">>)
          \/ matchValue(tk, i, "operator", <<")">>)
          \/ (match(tk, i, "word") /\ cur(tk, i).value \in CompoundClosers)
  THEN Ok(i, commands)
  ELSE Let(parseCommandList(tk, i), LAMBDA c :
         IF c.err THEN c
         ELSE LET cs == IF c.has THEN Append(commands, c.node) ELSE commands IN
              IF match(tk, c.i, "newline") THEN compoundLoop(tk, linebreak(tk, c.i), cs)
              ELSE IF matchValue(tk, c.i, "operator", <<";">>)
                   THEN compoundLoop(tk, linebreak(tk, c.i + 1), cs)
                   ELSE Ok(c.i, cs))

parseBraceGroup(tk, i) ==
  Let(expectValue(tk, i, "operator", <<"{">>), LAMBDA e1 :
  IF e1.err THEN e1 ELSE
  Let(parseCompoundList(tk, linebreak(tk, e1.i)), LAMBDA b :
  IF b.err THEN b ELSE
  Let(expectValue(tk, b.i, "operator", <<"}">>), LAMBDA e2 :
  IF e2.err THEN e2 ELSE Ok(e2.i, [type |-> "brace_group", body |-> b.node]))))

parseSubshell(tk, i) ==
  Let(expectValue(tk, i, "operator", <<"(">>), LAMBDA e1 :
  IF e1.err THEN e1 ELSE
  Let(parseCompoundList(tk, linebreak(tk, e1.i)), LAMBDA b :
  IF b.err THEN b ELSE
  Let(expectValue(tk, b.i, "operator", <<")">>), LAMBDA e2 :
  IF e2.err THEN e2 ELSE Ok(e2.i, [type |-> "subshell", body |-> b.node]))))

\* the elif / else part of parseIfClause; i is at the token after the body
elsePart(tk, i) ==
  IF matchValue(tk, i, "word", KW.elif) THEN parseIfClause(tk, i)
  ELSE IF matchValue(tk, i, "word", KW.else)
  THEN Let(parseCompoundList(tk, linebreak(tk, i + 1)), LAMBDA eb :
         IF eb.err THEN eb
         ELSE Ok(eb.i, [type |-> "brace_group", body |-> eb.node]))
  ELSE None(i)

parseIfClause(tk, i) ==
  Let(expectValue(tk, i, "word", KW.if), LAMBDA e1 :
  IF e1.err THEN e1 ELSE
  Let(parseCompoundList(tk, linebreak(tk, e1.i)), LAMBDA c :
  IF c.err THEN c ELSE
  Let(expectValue(tk, c.i, "word", KW.then), LAMBDA e2 :
  IF e2.err THEN e2 ELSE
  Let(parseCompoundList(tk, linebreak(tk, e2.i)), LAMBDA b :
  IF b.err THEN b ELSE
  Let(elsePart(tk, b.i), LAMBDA el :
  IF el.err THEN el ELSE
  Let(expectValue(tk, el.i, "word", KW.fi), LAMBDA e3 :
  IF e3.err THEN e3
  ELSE Ok(e3.i, [type |-> "if", condition |-> c.node, body |-> b.node,
                 hasElse |-> el.has, elseClause |-> el.node])))))))

forWordsLoop(tk, i, words) ==
  IF match(tk, i, "word") /\ ~isReservedWord(cur(tk, i).value)
  THEN forWordsLoop(tk, i + 1, Append(words, parseWordValue(cur(tk, i).value)))
  ELSE Ok(i, words)

parseForClause(tk, i) ==
  Let(expectValue(tk, i, "word", KW.for), LAMBDA e1 :
  IF e1.err THEN e1 ELSE
  IF ~match(tk, e1.i, "word") THEN Err(<<"Expected variable name after for">>) ELSE
  Let(linebreak(tk, e1.i + 1), LAMBDA i1 :
  Let(matchValue(tk, i1, "word", KW.in), LAMBDA hasIn :
  Let(IF hasIn THEN forWordsLoop(tk, i1 + 1, <<>>) ELSE Ok(i1, <<>>), LAMBDA ws :
  Let(expectValue(tk, IF matchValue(tk, ws.i, "operator", <<";">>) THEN ws.i + 1
                      ELSE linebreak(tk, ws.i),
                  "word", KW.do), LAMBDA e2 :
  IF e2.err THEN e2 ELSE
  Let(parseCompoundList(tk, linebreak(tk, e2.i)), LAMBDA b :
  IF b.err THEN b ELSE
  Let(expectValue(tk, b.i, "word", KW.done), LAMBDA e3 :
  IF e3.err THEN e3
  ELSE Ok(e3.i, [type |-> "for", name |-> cur(tk, e1.i).value, hasIn |-> hasIn,
                 words |-> ws.node, body |-> b.node]))))))))

parseLoopClause(tk, i, isUntil) ==
  Let(expectValue(tk, i, "word", IF isUntil THEN KW.until ELSE KW.while), LAMBDA e1 :
  IF e1.err THEN e1 ELSE
  Let(parseCompoundList(tk, linebreak(tk, e1.i)), LAMBDA c :
  IF c.err THEN c ELSE
  Let(expectValue(tk, c.i, "word", KW.do), LAMBDA e2 :
  IF e2.err THEN e2 ELSE
  Let(parseCompoundList(tk, linebreak(tk, e2.i)), LAMBDA b :
  IF b.err THEN b ELSE
  Let(expectValue(tk, b.i, "word", KW.done), LAMBDA e3 :
  IF e3.err THEN e3
  ELSE Ok(e3.i, [type |-> "loop", isUntil |-> isUntil, condition |-> c.node,
                 body |-> b.node]))))))

\* do { pattern = parseWord() } while (accept('|'))
patternLoop(tk, i, patterns) ==
  Let(parseWord(tk, i), LAMBDA w :
    LET ps == IF w.has THEN Append(patterns, w.node) ELSE patterns
    IN IF matchValue(tk, w.i, "operator", <<"|">>) THEN patternLoop(tk, w.i + 1, ps)
       ELSE Ok(w.i, ps))

caseItemsLoop(tk, i, items) ==
  IF matchValue(tk, i, "word", KW.esac) THEN Ok(i, items)
  ELSE IF match(tk, i, "eof") THEN Err(<<"Unexpected EOF in case">>)
  ELSE Let(patternLoop(tk, IF matchValue(tk, i, "operator", <<"(">>) THEN i + 1 ELSE i,
                       <<>>), LAMBDA ps :
       Let(expectValue(tk, ps.i, "operator", <<")">>), LAMBDA e1 :
       IF e1.err THEN e1 ELSE
       Let(parseCompoundList(tk, linebreak(tk, e1.i)), LAMBDA b :
       IF b.err THEN b ELSE
       LET its == Append(items, [patterns |-> ps.node, body |-> b.node]) IN
       IF matchValue(tk, b.i, "operator", <<";",";">>)
       THEN caseItemsLoop(tk, linebreak(tk, b.i + 1), its)
       ELSE Ok(b.i, its))))

parseCaseClause(tk, i) ==
  Let(expectValue(tk, i, "word", KW.case), LAMBDA e1 :
  IF e1.err THEN e1 ELSE
  Let(parseWord(tk, e1.i), LAMBDA w :
  IF ~w.has THEN Err(<<"Expected word after case">>) ELSE
  Let(expectValue(tk, linebreak(tk, w.i), "word", KW.in), LAMBDA e2 :
  IF e2.err THEN e2 ELSE
  Let(caseItemsLoop(tk, linebreak(tk, e2.i), <<>>), LAMBDA its :
  IF its.err THEN its ELSE
  Let(expectValue(tk, its.i, "word", KW.esac), LAMBDA e3 :
  IF e3.err THEN e3
  ELSE Ok(e3.i, [type |-> "case", word |-> w.node, items |-> its.node]))))))

\* Parser.parse: the loop over command lists
RECURSIVE parseLoop(_, _, _)
parseLoop(tk, i, commands) ==
  IF match(tk, i, "eof") THEN Ok(i, [commands |-> commands])
  ELSE Let(parseCommandList(tk, i), LAMBDA c :
         IF c.err THEN c
         ELSE LET cs == IF c.has THEN Append(commands, c.node) ELSE commands IN
              IF match(tk, c.i, "newline") THEN parseLoop(tk, linebreak(tk, c.i), cs)
              ELSE IF matchValue(tk, c.i, "operator", <<";">>)
                   THEN parseLoop(tk, linebreak(tk, c.i + 1), cs)
                   ELSE IF ~match(tk, c.i, "eof") THEN Ok(c.i, [commands |-> cs])
                        ELSE parseLoop(tk, c.i, cs))

\* parse(input): new Parser(input).parse()
parse(input) ==
  Let(tokenize(input), LAMBDA tk : parseLoop(tk, linebreak(tk, 1), <<>>))

(***************************************************************************)
(* Paths and the filesystem capability                                     *)
(***************************************************************************)
\* path.split('/'): the pieces between the slashes (possibly empty)
RECURSIVE splitLoop(_, _, _, _)
splitLoop(path, k, piece, parts) ==
  LET end == scanTo(path, k - 1, {"/"}) IN
  IF end < Len(path)
  THEN splitLoop(path, end + 2, <<>>, Append(parts, piece \o SubSeq(path, k, end)))
  ELSE Append(parts, piece \o SubSeq(path, k, Len(path)))

split(path) == splitLoop(path, 1, <<>>, <<>>)

\* the loop of normalizePath over the filtered parts
RECURSIVE normLoop(_, _, _)
normLoop(parts, k, result) ==
  IF k > Len(parts) THEN result
  ELSE IF parts[k] = <<>> \/ parts[k] = <<".">> THEN normLoop(parts, k + 1, result)
  ELSE IF parts[k] = <<".", ".">>
       THEN normLoop(parts, k + 1,
                     IF result = <<>> THEN result ELSE SubSeq(result, 1, Len(result) - 1))
       ELSE normLoop(parts, k + 1, Append(result, parts[k]))

\* result.join('/')
RECURSIVE join(_, _)
join(parts, sep) ==
  IF parts = <<>> THEN <<>>
  ELSE IF Len(parts) = 1 THEN parts[1]
  ELSE parts[1] \o sep \o join(Tail(parts), sep)

normalizePath(path) == <<"/">> \o join(normLoop(split(path), 1, <<>>), <<"/">>)

startsWith(str, prefix) ==
  Len(str) >= Len(prefix) /\ SubSeq(str, 1, Len(prefix)) = prefix

\* the environment names the shell itself reads or writes
Var ==
  [HOME |-> <<"H","O","M","E">>,
   PWD |-> <<"P","W","D">>,
   OLDPWD |-> <<"O","L","D","P","W","D">>,
   PATH |-> <<"P","A","T","H">>,
   PS1 |-> <<"P","S","1">>]

HomeUser == <<"/","h","o","m","e","/","u","s","e","r">>

\* Map.get(name) || dflt
envGetOr(env, name, dflt) ==
  IF name \in DOMAIN env /\ env[name] # <<>> THEN env[name] ELSE dflt

\* Map.set(name, value)
envSet(env, name, value) ==
  [n \in DOMAIN env \cup {name} |-> IF n = name THEN value ELSE env[n]]

\* Map.delete(name)
envDelete(env, name) == [n \in DOMAIN env \ {name} |-> env[n]]

\* Shell.resolvePath (shell.ts): absolute, ~-relative or cwd-relative
shellResolvePath(env, cwd, path) ==
  IF startsWith(path, <<"/">>) THEN normalizePath(path)
  ELSE IF startsWith(path, <<"~">>)
       THEN normalizePath(envGetOr(env, Var.HOME, HomeUser) \o substringFrom(path, 1))
       ELSE normalizePath(cwd \o <<"/">> \o path)

\* resolvePath of the builtins' utilities
resolvePath(cwd, path) ==
  IF startsWith(path, <<"/">>) THEN normalizePath(path)
  ELSE normalizePath(cwd \o <<"/">> \o path)

\* The filesystem is a map from normalized absolute paths to nodes.
DirNode == [dir |-> TRUE, data |-> <<>>]
FileNode(data) == [dir |-> FALSE, data |-> data]

parentOf(path) ==
  LET parts == normLoop(split(path), 1, <<>>)
  IN <<"/">> \o join(SubSeq(parts, 1, Len(parts) - 1), <<"/">>)

fsIsDir(fs, path) == path \in DOMAIN fs /\ fs[path].dir
fsIsFile(fs, path) == path \in DOMAIN fs /\ ~fs[path].dir

\* readFileSync succeeds on regular files only
fsCanRead(fs, path) == fsIsFile(fs, path)

\* writeFileSync / appendFileSync succeed when the path is not a directory
\* and its parent directory exists
fsCanWrite(fs, path) ==
  /\ path # <<"/">>
  /\ ~fsIsDir(fs, path)
  /\ fsIsDir(fs, parentOf(path))

fsPut(fs, path, node) ==
  [q \in DOMAIN fs \cup {path} |-> IF q = path THEN node ELSE fs[q]]

writeFileSync(fs, path, data) == fsPut(fs, path, FileNode(data))

appendFileSync(fs, path, data) ==
  fsPut(fs, path, FileNode((IF fsIsFile(fs, path) THEN fs[path].data ELSE <<>>) \o data))

(***************************************************************************)
(* Streams.  this.stdout / this.stderr hold a callback: the host's stdout  *)
(* callback, the host's stderr callback, or a closure that appends to a    *)
(* local buffer of some evaluator frame (bufs[id]).  "dead" is such a      *)
(* closure whose frame has returned and whose buffer nobody can read.      *)
(***************************************************************************)
HostOut == [k |-> "out", id |-> 0]
HostErr == [k |-> "err", id |-> 0]
BufB(id) == [k |-> "buf", id |-> id]
DeadB == [k |-> "dead", id |-> 0]

\* calling the callback b with text
write(S, b, text) ==
  CASE b.k = "out" -> [S EXCEPT !.out = @ \o text]
    [] b.k = "err" -> [S EXCEPT !.err = @ \o text]
    [] b.k = "buf" -> [S EXCEPT !.bufs[b.id] = @ \o text]
    [] b.k = "dead" -> S

\* everything the callback b has received so far
content(S, b) ==
  CASE b.k = "out" -> S.out
    [] b.k = "err" -> S.err
    [] b.k = "buf" -> S.bufs[b.id]
    [] b.k = "dead" -> <<>>

\* let output = ''  in a new frame; the closure is BufB(Len(bufs))
newBuf(S) == [S EXCEPT !.bufs = Append(@, <<>>)]

\* the observation log of the current execute() call
logEv(S, ev) == [S EXCEPT !.log = Append(@, ev)]

(***************************************************************************)
(* Command handlers (the registry's actions)                               *)
(***************************************************************************)

\* command names: builtins, the host's throwing command, the alias and the
\* function the host installs
Name ==
  [echo |-> <<"e","c","h","o">>,
   cat |-> <<"c","a","t">>,
   cd |-> <<"c","d">>,
   pwd |-> <<"p","w","d">>,
   true |-> <<"t","r","u","e">>,
   false |-> <<"f","a","l","s","e">>,
   exit |-> <<"e","x","i","t">>,
   unset |-> <<"u","n","s","e","t">>,
   boom |-> <<"b","o","o","m">>,
   need |-> <<"n","e","e","d">>,
   ll |-> <<"l","l">>,
   fn |-> <<"f","n">>]

\* the builtins of the registry that the model covers
Builtins == {Name.echo, Name.cat, Name.cd, Name.pwd, Name.true, Name.false, Name.exit, Name.unset}

\* the commands the host registers besides the builtins: boom, whose action
\* throws, and need, declared with the required option "-n, --num <value>"
HostCommands == {Name.boom, Name.need}

\* VirtualCommand.options of the command registered under name
Options(name) ==
  IF name = Name.need
  THEN << [name |-> <<"n","u","m">>, short |-> "n", required |-> TRUE, hasValue |-> TRUE] >>
  ELSE <<>>

\* CommandRegistry.parseArgs for a command without declared options:
\* "--x" and "-x" become flags, everything else is positional (args._)
isFlag(arg) ==
  startsWith(arg, <<"-","-">>) \/ (startsWith(arg, <<"-">>) /\ Len(arg) = 2)

parseArgs(args) == SelectSeq(args, LAMBDA a : ~isFlag(a))

\* parseInt(str, 10) || 0 for an unsigned decimal prefix
RECURSIVE parseIntLoop(_, _, _)
parseIntLoop(str, k, acc) ==
  IF k <= Len(str) /\ str[k] \in Digits
  THEN parseIntLoop(str, k + 1,
                    acc * 10 + (CHOOSE n \in 0..9 : DigitOf(n) = str[k]))
  ELSE acc

parseIntOr0(str) == parseIntLoop(str, 1, 0)

\* what a handler returns: the shell after it, its exit code, whether it
\* threw (with the error's message) and the text it passed to ctx.stdout
Ret(S, rc, wrote) == [S |-> S, rc |-> rc, threw |-> FALSE, msg |-> <<>>, wrote |-> wrote]
Threw(S, msg) == [S |-> S, rc |-> 0, threw |-> TRUE, msg |-> msg, wrote |-> <<>>]

\* a faulty variant of Shell.setCwd: the path is stored as a directory name,
\* with a separator after it
setCwdSlash(S, path) ==
  [S EXCEPT !.cwd = path \o <<"/">>, !.stateCwd = path \o <<"/">>,
            !.env = envSet(@, Var.PWD, path \o <<"/">>)]

\* Shell.setCwd
setCwd(S, path) ==
  [S EXCEPT !.cwd = path, !.stateCwd = path, !.env = envSet(@, Var.PWD, path)]

\* Shell.exit
exit(S, code) ==
  logEv([S EXCEPT !.running = FALSE, !.lastExitCode = code],
        [e |-> "exit", code |-> code])

echoAction(S, ctx) ==
  Let(join(ctx.args, <<" ">>) \o <<"\n">>, LAMBDA text :
    Ret(write(S, ctx.stdout, text), 0, text))

pwdAction(S, ctx) ==
  LET text == ctx.cwd \o <<"\n">> IN Ret(write(S, ctx.stdout, text), 0, text)

exitAction(S, ctx) ==
  Let(IF Len(ctx.args) > 0 THEN parseIntOr0(ctx.args[1]) ELSE 0, LAMBDA code :
    Ret(exit(S, code), code, <<>>))

RECURSIVE unsetLoop(_, _, _)
unsetLoop(env, names, k) ==
  IF k > Len(names) THEN env ELSE unsetLoop(envDelete(env, names[k]), names, k + 1)

unsetAction(S, ctx) == Ret([S EXCEPT !.env = unsetLoop(@, ctx.args, 1)], 0, <<>>)

\* a faulty variant of cd: the previous directory is not recorded
cdActionNoOld(S, ctx) ==
  LET arg  == IF Len(ctx.args) > 0 THEN ctx.args[1] ELSE <<>>
      home == envGetOr(ctx.env, Var.HOME, HomeUser)
  IN
  Let(IF arg = <<>> THEN home
      ELSE IF arg = <<"-">> THEN envGetOr(ctx.env, Var.OLDPWD, ctx.cwd)
      ELSE IF arg = <<"~">> THEN home
      ELSE IF startsWith(arg, <<"~","/">>) THEN home \o substringFrom(arg, 1)
      ELSE arg, LAMBDA target :
  Let(resolvePath(ctx.cwd, target), LAMBDA newPath :
    IF newPath \notin DOMAIN S.fs
    THEN Ret(write(S, ctx.stderr,
                   <<"cd: ">> \o target \o <<": No such file or directory\n">>), 1, <<>>)
    ELSE IF ~S.fs[newPath].dir
    THEN Ret(write(S, ctx.stderr, <<"cd: ">> \o target \o <<": Not a directory\n">>),
             1, <<>>)
    ELSE Ret([setCwd(S, newPath) EXCEPT !.env = envSet(@, Var.PWD, newPath)], 0, <<>>)))

cdAction(S, ctx) ==
  LET arg  == IF Len(ctx.args) > 0 THEN ctx.args[1] ELSE <<>>
      home == envGetOr(ctx.env, Var.HOME, HomeUser)
  IN
  Let(IF arg = <<>> THEN home
      ELSE IF arg = <<"-">> THEN envGetOr(ctx.env, Var.OLDPWD, ctx.cwd)
      ELSE IF arg = <<"~">> THEN home
      ELSE IF startsWith(arg, <<"~","/">>) THEN home \o substringFrom(arg, 1)
      ELSE arg, LAMBDA target :
  Let(resolvePath(ctx.cwd, target), LAMBDA newPath :
    IF newPath \notin DOMAIN S.fs
    THEN Ret(write(S, ctx.stderr,
                   <<"cd: ">> \o target \o <<": No such file or directory\n">>), 1, <<>>)
    ELSE IF ~S.fs[newPath].dir
    THEN Ret(write(S, ctx.stderr, <<"cd: ">> \o target \o <<": Not a directory\n">>),
             1, <<>>)
    ELSE Ret([setCwd([S EXCEPT !.env = envSet(@, Var.OLDPWD, ctx.cwd)], newPath)
                EXCEPT !.env = envSet(@, Var.PWD, newPath)], 0, <<>>)))

RECURSIVE catLoop(_, _, _, _)
catLoop(S, ctx, k, wrote) ==
  IF k > Len(ctx.args) THEN Ret(S, 0, wrote)
  ELSE LET path == ctx.args[k] IN
       IF path = <<"-">>
       THEN catLoop(write(S, ctx.stdout, ctx.stdin), ctx, k + 1, wrote \o ctx.stdin)
       ELSE Let(resolvePath(ctx.cwd, path), LAMBDA resolved :
              IF fsCanRead(S.fs, resolved)
              THEN catLoop(write(S, ctx.stdout, S.fs[resolved].data), ctx, k + 1,
                           wrote \o S.fs[resolved].data)
              ELSE IF fsIsDir(S.fs, resolved)
              THEN Ret(write(S, ctx.stderr,
                             <<"cat: ">> \o path \o <<": Is a directory\n">>), 1, wrote)
              ELSE Ret(write(S, ctx.stderr,
                             <<"cat: ">> \o path \o <<": No such file or directory\n">>),
                       1, wrote))

catAction(S, ctx) ==
  IF Len(ctx.args) = 0
  THEN Ret(write(S, ctx.stdout, ctx.stdin), 0, ctx.stdin)
  ELSE catLoop(S, ctx, 1, <<>>)

\* virtualCmd.action(context) for the command registered under name
action(S, name, ctx) ==
  CASE name = Name.echo  -> echoAction(S, ctx)
    [] name = Name.cat   -> catAction(S, ctx)
    [] name = Name.cd    -> cdAction(S, ctx)
    [] name = Name.pwd   -> pwdAction(S, ctx)
    [] name = Name.true  -> Ret(S, 0, <<>>)
    [] name = Name.false -> Ret(S, 1, <<>>)
    [] name = Name.exit  -> exitAction(S, ctx)
    [] name = Name.unset -> unsetAction(S, ctx)
    [] name = Name.boom  -> Threw(S, <<"boom failed">>)
    [] name = Name.need  -> Ret(write(S, ctx.stdout, <<"ok","\n">>), 0, <<"ok","\n">>)

(***************************************************************************)
(* The evaluator (src/src/shell/shell.ts).  Every operator takes the shell  *)
(* S (a record of the Shell object's fields plus what the host has received *)
(* and the observation log) and returns the shell after the call; S.rc is   *)
(* the value the call returned, S.val / S.vals the string(s) an expansion   *)
(* returned.                                                                *)
(***************************************************************************)
RECURSIVE expandWordAt(_, _, _), expandChildren(_, _, _, _, _)
RECURSIVE expandWordsAt(_, _, _, _, _)
RECURSIVE execute(_, _), runProgram(_, _), bodyLoop(_, _, _, _), condLoop(_, _, _, _)
RECURSIVE runCommandList(_, _), runAndOrList(_, _), andOrRest(_, _, _, _, _)
RECURSIVE runPipeline(_, _), pipeStages(_, _, _, _, _), runCommand(_, _)
RECURSIVE runSimpleCommand(_, _), assignLoop(_, _, _), redirectLoop(_, _, _, _)
RECURSIVE runBraceGroup(_, _), runSubshell(_, _), runIfClause(_, _)
RECURSIVE runForClause(_, _), forLoop(_, _, _, _, _), runLoopClause(_, _)
RECURSIVE whileLoop(_, _, _), runCaseClause(_, _), caseLoop(_, _, _, _, _)

getVariable(S, name) ==
  CASE name = <<"?">> -> toStr(S.lastExitCode)
    [] name = <<"$">> -> <<"1">>
    [] name = <<"!">> -> <<"1">>
    [] name = <<"-">> -> <<>>
    [] name = <<"#">> -> <<"0">>
    [] name = <<"*">> -> <<>>
    [] name = <<"@">> -> <<>>
    [] name = <<"0">> -> <<"m","r","s","h">>
    [] OTHER -> envGetOr(S.env, name, <<>>)

expandWordSync(word) == IF word.type = "string" THEN word.value ELSE <<>>

setVal(S, value) == [S EXCEPT !.val = value]

\* new RegExp(pattern.replace(/[.+^${}()|[\]\\]/g, '\\$&')
\*                   .replace(/\*/g, '.*').replace(/\?/g, '.')):
\* the regular expression as the sequence of its elements, "star" for .* ,
\* "any" for . and the character itself for a literal
globRegex(pattern) ==
  [k \in 1..Len(pattern) |->
     IF pattern[k] = "*" THEN "star" ELSE IF pattern[k] = "?" THEN "any"
     ELSE <<pattern[k]>>]

\* what . does not match
LineTerminators == {"\n", "\r"}

\* The backtracking match of the elements regex[k..] at offset i of str: the
\* end of the first match the engine finds, .* trying the longest run first,
\* or -1.  anchored: the expression ends with $.
RECURSIVE regexMatch(_, _, _, _, _), regexStar(_, _, _, _, _, _)
regexMatch(regex, k, str, i, anchored) ==
  IF k > Len(regex) THEN (IF anchored /\ i # Len(str) THEN -1 ELSE i)
  ELSE IF regex[k] = "star"
  THEN regexStar(regex, k, str, i, anchored,
                 CHOOSE n \in 0..(Len(str) - i) :
                   /\ \A m \in 1..n : str[i + m] \notin LineTerminators
                   /\ (i + n = Len(str) \/ str[i + n + 1] \in LineTerminators))
  ELSE IF i < Len(str) /\ (IF regex[k] = "any" THEN str[i + 1] \notin LineTerminators
                            ELSE regex[k] = <<str[i + 1]>>)
  THEN regexMatch(regex, k + 1, str, i + 1, anchored)
  ELSE -1

\* .* taking n characters, then n - 1, ... until the rest matches
regexStar(regex, k, str, i, anchored, n) ==
  IF n < 0 THEN -1
  ELSE Let(regexMatch(regex, k + 1, str, i + n, anchored), LAMBDA r :
         IF r >= 0 THEN r ELSE regexStar(regex, k, str, i, anchored, n - 1))

\* value.replace(new RegExp(regex.source + '$'), ''): the match that starts
\* leftmost is removed
removeSuffix(value, regex) ==
  LET starts == {s \in 0..Len(value) : regexMatch(regex, 1, value, s, TRUE) >= 0}
  IN IF starts = {} THEN value
     ELSE SubSeq(value, 1, CHOOSE s \in starts : \A t \in starts : s <= t)

\* value.replace(new RegExp('^' + regex.source), '')
removePrefix(value, regex) ==
  Let(regexMatch(regex, 1, value, 0, FALSE), LAMBDA end :
    IF end < 0 THEN value ELSE SubSeq(value, end + 1, Len(value)))

\* a faulty variant of the switch: ${X:=w} yields the default and leaves
\* the environment alone
parameterValueNoAssign(S, param, value, null, argv) ==
  CASE param.op = "none" -> setVal(S, value)
    [] param.op \in {"minus", "equal"} -> setVal(S, IF null THEN argv ELSE value)
    [] param.op = "qmark" ->
         IF null
         THEN setVal(write(S, S.stderr,
                           <<"mrsh: ">> \o param.name \o <<": ">>
                           \o (IF param.hasArg THEN argv ELSE <<"parameter not set">>)
                           \o <<"\n">>), <<>>)
         ELSE setVal(S, value)
    [] param.op = "plus" ->
         setVal(S, IF value # <<>> /\ (~param.colon \/ value # <<>>)
                   THEN argv ELSE <<>>)
    [] param.op = "leading_hash" -> setVal(S, toStr(Len(value)))
    [] param.op \in {"percent", "dpercent"} ->
         setVal(S, IF param.hasArg THEN removeSuffix(value, globRegex(argv)) ELSE value)
    [] param.op \in {"hash", "dhash"} ->
         setVal(S, IF param.hasArg THEN removePrefix(value, globRegex(argv)) ELSE value)
    [] OTHER -> setVal(S, value)

\* the switch of expandParameter: value is getVariable(param.name), null the
\* test the conditional operators share, argv the expansion of param.arg
parameterValue(S, param, value, null, argv) ==
  CASE param.op = "none" -> setVal(S, value)
    [] param.op = "minus" -> setVal(S, IF null THEN argv ELSE value)
    [] param.op = "equal" ->
         IF null THEN setVal([S EXCEPT !.env = envSet(@, param.name, argv)], argv)
         ELSE setVal(S, value)
    [] param.op = "qmark" ->
         IF null
         THEN setVal(write(S, S.stderr,
                           <<"mrsh: ">> \o param.name \o <<": ">>
                           \o (IF param.hasArg THEN argv ELSE <<"parameter not set">>)
                           \o <<"\n">>), <<>>)
         ELSE setVal(S, value)
    [] param.op = "plus" ->
         setVal(S, IF value # <<>> /\ (~param.colon \/ value # <<>>)
                   THEN argv ELSE <<>>)
    [] param.op = "leading_hash" -> setVal(S, toStr(Len(value)))
    [] param.op \in {"percent", "dpercent"} ->
         setVal(S, IF param.hasArg THEN removeSuffix(value, globRegex(argv)) ELSE value)
    [] param.op \in {"hash", "dhash"} ->
         setVal(S, IF param.hasArg THEN removePrefix(value, globRegex(argv)) ELSE value)
    [] OTHER -> setVal(S, value)

\* the observation of one parameter expansion: S0 is the shell before it, S
\* the shell after it; value is what getVariable returned and argv the
\* expansion of the argument word
paramDone(S0, S, param, value, argv) ==
  logEv(S, [e |-> "param", name |-> param.name, op |-> param.op,
            colon |-> param.colon, hasArg |-> param.hasArg, argv |-> argv,
            value |-> value, result |-> S.val,
            envBefore |-> S0.env, envAfter |-> S.env,
            errBefore |-> content(S0, S0.stderr),
            errAfter |-> content(S, S0.stderr)])

expandParameter(S, param) ==
  Let(getVariable(S, param.name), LAMBDA value :
    LET \* !value || (param.colon && value === '')
        null == (value = <<>>) \/ (param.colon /\ value = <<>>)
        argv == IF param.hasArg THEN expandWordSync(param.arg) ELSE <<>>
    IN paramDone(S, parameterValue(S, param, value, null, argv), param, value, argv))

\* output.replace(/\n$/, '')
stripNewline(text) ==
  IF text # <<>> /\ text[Len(text)] = "\n" THEN SubSeq(text, 1, Len(text) - 1) ELSE text

(***************************************************************************)
(* new Function(`return (${sanitized})`)(): the value of the JavaScript     *)
(* expression.  The sanitized text holds digits, + - * / % ( ) and spaces  *)
(* only.  A value is a rational n/d in lowest terms; a result is a record  *)
(* with k = "num" (the value, and the offset i after it), k = "throw" (a   *)
(* SyntaxError or TypeError) or k = "outside".  Modelled exactly: decimal  *)
(* and legacy octal literals, unary and binary + - * / %, parentheses, the *)
(* tokens ++ and -- (always an error here), the line comment and the call  *)
(* of a number.  Outside the model, because the double arithmetic of the   *)
(* engine is not that of the rationals or because the result is not a      *)
(* number of this form: division and remainder by zero, arithmetic on a    *)
(* quotient that no double holds exactly, **, the block comment and the    *)
(* regular expression literal.  No input of the model leaves the fragment. *)
(***************************************************************************)
Thrown == [k |-> "throw", n |-> 0, d |-> 1, i |-> 0]

Outside == [k |-> "outside", n |-> 0, d |-> 1, i |-> 0]

Abs(n) == IF n < 0 THEN 0 - n ELSE n

RECURSIVE Gcd(_, _)
Gcd(a, b) == IF b = 0 THEN a ELSE Gcd(b, a % b)

\* n/d (d > 0) in lowest terms, read up to offset i
Rat(n, d, i) ==
  Let(Gcd(Abs(n), d), LAMBDA g : [k |-> "num", n |-> n \div g, d |-> d \div g, i |-> i])

\* the doubles hold n/d exactly (for the small values of the model)
Exact(d) == \E e \in 0..16 : d = 2 ^ e

\* the quotient of a by b (b # 0) truncated toward zero
Trunc(a, b) ==
  IF (a < 0) = (b < 0) THEN Abs(a) \div Abs(b) ELSE 0 - (Abs(a) \div Abs(b))

\* x op y for two values
arithApply(op, x, y) ==
  IF y.k # "num" THEN y
  ELSE IF ~Exact(x.d) \/ ~Exact(y.d) THEN Outside
  ELSE CASE op = "+" -> Rat(x.n * y.d + y.n * x.d, x.d * y.d, y.i)
         [] op = "-" -> Rat(x.n * y.d - y.n * x.d, x.d * y.d, y.i)
         [] op = "*" -> Rat(x.n * y.n, x.d * y.d, y.i)
         [] op = "/" -> IF y.n = 0 THEN Outside
                        ELSE Rat((IF y.n < 0 THEN 0 - 1 ELSE 1) * x.n * y.d,
                                 x.d * Abs(y.n), y.i)
         [] op = "%" -> IF y.n = 0 THEN Outside
                        ELSE Rat(x.n * y.d - Trunc(x.n * y.d, x.d * y.n) * y.n * x.d,
                                 x.d * y.d, y.i)

arithSkip(s, i) == IF i < 0 THEN i ELSE scanPast(s, i, {" "})

digitsEnd(s, i) == IF i < 0 THEN i ELSE scanPast(s, i, Digits)

RECURSIVE digitsValue(_, _, _)
digitsValue(lit, base, acc) ==
  IF lit = <<>> THEN acc
  ELSE digitsValue(Tail(lit), base,
                   acc * base + (CHOOSE n \in 0..9 : DigitOf(n) = Head(lit)))

\* a literal with a leading 0 and octal digits only is octal
literalValue(lit) ==
  IF Len(lit) > 1 /\ lit[1] = "0" /\ \A j \in 1..Len(lit) : lit[j] \notin {"8", "9"}
  THEN digitsValue(lit, 8, 0)
  ELSE digitsValue(lit, 10, 0)

RECURSIVE arithAdditive(_, _), arithAddLoop(_, _), arithMulLoop(_, _), arithUnary(_, _),
          arithPrimary(_, _)

\* a value followed by ( is called, and a number is not a function
arithCall(s, r) ==
  IF r.k = "num" /\ charAt(s, arithSkip(s, r.i)) = "(" THEN Thrown ELSE r

arithPrimary(s, i0) ==
  LET i == arithSkip(s, i0)
      c == charAt(s, i)
  IN IF c \in Digits
     THEN arithCall(s, Rat(literalValue(substring(s, i, digitsEnd(s, i))), 1,
                           digitsEnd(s, i)))
     ELSE IF c = "("
     THEN Let(arithAdditive(s, i + 1), LAMBDA r :
            IF r.k # "num" THEN r
            ELSE IF charAt(s, arithSkip(s, r.i)) = ")"
            THEN arithCall(s, [r EXCEPT !.i = arithSkip(s, r.i) + 1])
            ELSE Thrown)
     ELSE IF c = "/" THEN Outside
     ELSE Thrown

arithUnary(s, i0) ==
  LET i == arithSkip(s, i0)
      c == charAt(s, i)
  IN IF c \in {"+", "-"}
     THEN IF charAt(s, i + 1) = c THEN Thrown
          ELSE Let(arithUnary(s, i + 1), LAMBDA r :
                 IF r.k = "num" /\ c = "-" THEN [r EXCEPT !.n = 0 - r.n] ELSE r)
     ELSE arithPrimary(s, i)

arithMulLoop(s, left) ==
  IF left.k # "num" THEN left
  ELSE LET i == arithSkip(s, left.i)
           c == charAt(s, i)
       IN IF c = "*" /\ charAt(s, i + 1) = "*" THEN Outside
          ELSE IF c = "/" /\ charAt(s, i + 1) = "/" THEN Thrown
          ELSE IF c = "/" /\ charAt(s, i + 1) = "*" THEN Outside
          ELSE IF c \in {"*", "/", "%"}
          THEN Let(arithUnary(s, i + 1), LAMBDA r :
                 arithMulLoop(s, arithApply(c, left, r)))
          ELSE left

arithAddLoop(s, left) ==
  IF left.k # "num" THEN left
  ELSE LET i == arithSkip(s, left.i)
           c == charAt(s, i)
       IN IF c \in {"+", "-"}
          THEN IF charAt(s, i + 1) = c THEN Thrown
               ELSE Let(arithMulLoop(s, arithUnary(s, i + 1)), LAMBDA r :
                      arithAddLoop(s, arithApply(c, left, r)))
          ELSE left

arithAdditive(s, i) == arithAddLoop(s, arithMulLoop(s, arithUnary(s, i)))

\* the value of the program text `return (${sanitized})`
functionResult(sanitized) ==
  LET s == <<"(">> \o sanitized \o <<")">> IN
  Let(arithAdditive(s, 0), LAMBDA r :
    IF r.k # "num" THEN r
    ELSE IF arithSkip(s, r.i) = Len(s) THEN r
    ELSE Thrown)

\* expr.replace(/\$(\w+)/g, (_, name) => this.getVariable(name))
RECURSIVE expandVariables(_, _, _, _)
expandVariables(S, expr, i, acc) ==
  IF i >= Len(expr) THEN acc
  ELSE IF charAt(expr, i) = "$" /\ IsNameChar(charAt(expr, i + 1))
  THEN Let(nameLoop(expr, i + 1, <<>>), LAMBDA nm :
         expandVariables(S, expr, nm.end, acc \o getVariable(S, nm.name)))
  ELSE LET end == scanTo(expr, i + 1, {"$"})
       IN expandVariables(S, expr, end, acc \o SubSeq(expr, i + 1, end))

\* /[^0-9+\-*/%() ]/g
ArithmeticChars == Digits \cup {"+", "-", "*", "/", "%", "(", ")", " "}

\* what stands for result.toString() of a result outside the model
OutsideText == <<"(outside the model)">>

\* a faulty variant: the quotient is truncated toward zero
evaluateArithmeticTrunc(S, expr) ==
  Let(functionResult(SelectSeq(expandVariables(S, expr, 0, <<>>),
                               LAMBDA c : c \in ArithmeticChars)), LAMBDA r :
    IF r.k = "throw" THEN toStr(0)
    ELSE IF r.k = "outside" THEN OutsideText
    ELSE toStr(Trunc(r.n, r.d)))

\* evaluateArithmetic(expr).toString(): a throw inside gives 0, and
\* Math.floor(n/d) is n \div d
evaluateArithmetic(S, expr) ==
  Let(functionResult(SelectSeq(expandVariables(S, expr, 0, <<>>),
                               LAMBDA c : c \in ArithmeticChars)), LAMBDA r :
    IF r.k = "throw" THEN toStr(0)
    ELSE IF r.k = "outside" THEN OutsideText
    ELSE toStr(r.n \div r.d))

\* the observation of one arithmetic expansion: S is the shell when the
\* word was reached, and S.val the result
arithDone(S, word, expr) ==
  logEv(S, [e |-> "arith", text |-> word.text, closed |-> word.closed,
            expr |-> expr, result |-> S.val, shell |-> [S EXCEPT !.log = <<>>]])

\* the observation of one command substitution: S0 is the shell when the
\* word was reached, S the shell after it
substDone(S0, S, word) ==
  logEv(S, [e |-> "subst", text |-> word.text, ran |-> word.hasProgram,
            val |-> S.val, shell |-> [S0 EXCEPT !.log = <<>>],
            outBefore |-> content(S0, S0.stdout),
            outAfter |-> content(S, S0.stdout)])

\* One call this.expandWord(word) among those a Promise.all has started.
\* The call runs up to its first await on the shell S it finds; what follows
\* an await runs after every call of the group has been started, on the
\* shell F they have left.  Only the arithmetic branch has statements after
\* an await (evaluateArithmetic, which reads the variables).
expandWordAt(S, F, word) ==
  CASE word.type = "string" -> setVal(S, word.value)
    [] word.type = "parameter" -> expandParameter(S, word)
    [] word.type = "list" -> expandChildren(S, F, word.children, 1, <<>>)
    [] word.type = "command" ->
         IF word.hasProgram
         THEN Let(newBuf(S), LAMBDA S1 :
              Let(runProgram([S1 EXCEPT !.stdout = BufB(Len(S1.bufs))], word.program),
                  LAMBDA S2 :
                substDone(S, setVal([S2 EXCEPT !.stdout = S.stdout],
                                    stripNewline(S2.bufs[Len(S1.bufs)])), word)))
         ELSE substDone(S, setVal(S, <<>>), word)
    [] word.type = "arithmetic" ->
         Let(expandWordAt(S, F, word.body), LAMBDA S1 :
           arithDone(setVal(S1, evaluateArithmetic(F, S1.val)), word, S1.val))

\* (await Promise.all(children.map(c => this.expandWord(c)))).join(''): map
\* starts the calls in order
expandChildren(S, F, children, k, acc) ==
  IF k > Len(children) THEN setVal(S, acc)
  ELSE Let(expandWordAt(S, F, children[k]), LAMBDA S1 :
         expandChildren(S1, F, children, k + 1, acc \o S1.val))

\* await this.expandWord(word): the shell the started calls leave is the
\* one the call itself leaves, since nothing they do after an await changes
\* the shell.  When they leave the variables as they found them, what runs
\* after an await reads what it would have read before.
expandWord(S, word) ==
  Let(expandWordAt(S, S, word), LAMBDA F :
    IF F.env = S.env THEN F ELSE expandWordAt(S, F, word))

expandWordsAt(S, F, words, k, acc) ==
  IF k > Len(words) THEN [S EXCEPT !.vals = acc]
  ELSE Let(expandWordAt(S, F, words[k]), LAMBDA S1 :
         expandWordsAt(S1, F, words, k + 1, Append(acc, S1.val)))

\* await Promise.all(words.map(w => this.expandWord(w)))
expandWords(S, words, k, acc) ==
  Let(expandWordsAt(S, S, words, k, acc), LAMBDA F :
    IF F.env = S.env THEN F ELSE expandWordsAt(S, F, words, k, acc))

\* the glob of runCaseClause: * is .*, ? is ., everything else is literal
RECURSIVE globMatch(_, _)
globMatch(pat, str) ==
  IF pat = <<>> THEN str = <<>>
  ELSE IF Head(pat) = "*"
       THEN globMatch(Tail(pat), str)
            \/ (str # <<>> /\ Head(str) # "\n" /\ globMatch(pat, Tail(str)))
       ELSE IF Head(pat) = "?"
            THEN str # <<>> /\ Head(str) # "\n" /\ globMatch(Tail(pat), Tail(str))
            ELSE str # <<>> /\ Head(str) = Head(pat) /\ globMatch(Tail(pat), Tail(str))

\* a faulty variant of the catch branch: the error is reported and 2 is
\* returned, but lastExitCode keeps its old value
parseFailureKeepsCode(S, msg) ==
  [write(S, S.stderr, <<"mrsh: ">> \o msg \o <<"\n">>) EXCEPT !.rc = 2]

\* the catch branch of execute
parseFailure(S, msg) ==
  [write(S, S.stderr, <<"mrsh: ">> \o msg \o <<"\n">>)
     EXCEPT !.lastExitCode = 2, !.rc = 2]

execute(S, input) ==
  Let(parse(input), LAMBDA p :
    IF p.err THEN parseFailure(S, p.msg) ELSE runProgram(S, p.node))

\* for (const cmd of list) { exitCode = await this.runCommandList(cmd);
\*                           if (!this.state.running) break; }
bodyLoop(S, cmds, k, exitCode) ==
  IF k > Len(cmds) THEN [S EXCEPT !.rc = exitCode]
  ELSE Let(runCommandList(S, cmds[k]), LAMBDA S1 :
         IF ~S1.running THEN S1 ELSE bodyLoop(S1, cmds, k + 1, S1.rc))

\* the condition loops of if and while/until: no test of running
condLoop(S, cmds, k, conditionResult) ==
  IF k > Len(cmds) THEN [S EXCEPT !.rc = conditionResult]
  ELSE Let(runCommandList(S, cmds[k]), LAMBDA S1 :
         condLoop(S1, cmds, k + 1, S1.rc))

runProgram(S, program) ==
  Let(bodyLoop(S, program.commands, 1, 0), LAMBDA S1 :
    [S1 EXCEPT !.lastExitCode = S1.rc])

\* A statement starts here.  An evaluation that would start more than
\* MaxStatements statements is cut off and marked as diverged.
runCommandList(S, commandList) ==
  IF S.fuel = 0 THEN [S EXCEPT !.diverged = TRUE, !.rc = 0]
  ELSE runAndOrList(logEv([S EXCEPT !.fuel = @ - 1],
                          [e |-> "stmt", cmd |-> commandList]),
                    commandList.andOrList)

\* a faulty variant of the short-circuit test: || always runs its pipeline
andOrRunsEveryOr(type, exitCode) == (type = "and" /\ exitCode = 0) \/ type = "or"

\* whether the item after a pipeline that returned exitCode runs
andOrRuns(type, exitCode) ==
  (type = "and" /\ exitCode = 0) \/ (type = "or" /\ exitCode # 0)

andOrRest(S, rest, k, exitCode, lid) ==
  IF k > Len(rest) THEN [S EXCEPT !.rc = exitCode]
  ELSE IF andOrRuns(rest[k].type, exitCode)
       THEN Let(runPipeline(S, rest[k].pipeline), LAMBDA S1 :
              andOrRest(logEv(S1, [e |-> "pfin", lid |-> lid, idx |-> k, rc |-> S1.rc]),
                        rest, k + 1, S1.rc, lid))
       ELSE andOrRest(S, rest, k + 1, exitCode, lid)

runAndOrList(S, andOrList) ==
  LET lid == S.uid + 1 IN
  Let(runPipeline([S EXCEPT !.uid = lid], andOrList.first), LAMBDA S1 :
  Let(andOrRest(logEv(S1, [e |-> "pfin", lid |-> lid, idx |-> 0, rc |-> S1.rc]),
                andOrList.rest, 1, S1.rc, lid), LAMBDA S3 :
    logEv(S3, [e |-> "lfin", lid |-> lid, rc |-> S3.rc, lec |-> S3.lastExitCode,
               ops |-> [i \in 1..Len(andOrList.rest) |-> andOrList.rest[i].type]])))

\* a faulty variant of the negation: nonzero codes are kept
negateKeepsNonzero(exitCode) == IF exitCode = 0 THEN 1 ELSE exitCode

\* exitCode === 0 ? 1 : 0
negate(exitCode) == IF exitCode = 0 THEN 1 ELSE 0

\* a faulty variant of the stage set-up: the pipe input is not injected
stageBeginNoInput(S, isLast, input) ==
  IF isLast THEN S
  ELSE Let(newBuf(S), LAMBDA T : [T EXCEPT !.stdout = BufB(Len(T.bufs))])

\* the set-up of one stage: a capture closure unless the stage is the last,
\* and the pipe input
stageBegin(S, isLast, input) ==
  IF isLast THEN [S EXCEPT !.pipeBuffer = input]
  ELSE Let(newBuf(S), LAMBDA T :
         [T EXCEPT !.stdout = BufB(Len(T.bufs)), !.pipeBuffer = input])

pipeStages(S, cmds, i, input, pid) ==
  IF i > Len(cmds) THEN [S EXCEPT !.pipeBuffer = <<>>]
  ELSE LET isLast == i = Len(cmds)
           savedStdout == S.stdout
       IN
       Let(stageBegin(S, isLast, input), LAMBDA S1 :
       Let(runCommand(logEv(S1, [e |-> "stage", pid |-> pid, i |-> i, n |-> Len(cmds),
                                 cmd |-> cmds[i], enc |-> savedStdout,
                                 outB |-> S1.stdout, errB |-> S1.stderr,
                                 stdin |-> S1.pipeBuffer]),
                      cmds[i]), LAMBDA S3 :
       Let(IF isLast THEN <<>> ELSE S3.bufs[S1.stdout.id], LAMBDA output :
         pipeStages(logEv([S3 EXCEPT !.stdout = savedStdout],
                          [e |-> "stageEnd", pid |-> pid, i |-> i, rc |-> S3.rc,
                           output |-> output]),
                    cmds, i + 1, output, pid))))

runPipeline(S, pipeline) ==
  LET pid == S.uid + 1 IN
  Let(IF Len(pipeline.commands) = 1
      THEN runCommand([S EXCEPT !.uid = pid], pipeline.commands[1])
      ELSE pipeStages([S EXCEPT !.uid = pid], pipeline.commands, 1, <<>>, pid),
      LAMBDA S1 :
  Let(IF pipeline.negation THEN negate(S1.rc) ELSE S1.rc, LAMBDA rc :
    logEv([S1 EXCEPT !.rc = rc],
          [e |-> "pipe", pid |-> pid, n |-> Len(pipeline.commands),
           negation |-> pipeline.negation, last |-> S1.rc, rc |-> rc])))

runCommand(S, command) ==
  CASE command.type = "simple"      -> runSimpleCommand(S, command)
    [] command.type = "brace_group" -> runBraceGroup(S, command)
    [] command.type = "subshell"    -> runSubshell(S, command)
    [] command.type = "if"          -> runIfClause(S, command)
    [] command.type = "for"         -> runForClause(S, command)
    [] command.type = "loop"        -> runLoopClause(S, command)
    [] command.type = "case"        -> runCaseClause(S, command)

runBraceGroup(S, group) == bodyLoop(S, group.body, 1, 0)

\* a faulty variant of the restore: the environment only
restoreEnvOnly(S, savedEnv, savedCwd) == [S EXCEPT !.env = savedEnv]

\* this.env = savedEnv; this.cwd = savedCwd
restoreSubshell(S, savedEnv, savedCwd) == [S EXCEPT !.env = savedEnv, !.cwd = savedCwd]

runSubshell(S, subshell) ==
  LET savedEnv == S.env
      savedCwd == S.cwd
  IN
  Let(bodyLoop(S, subshell.body, 1, 0), LAMBDA S1 :
  Let(restoreSubshell(S1, savedEnv, savedCwd), LAMBDA S2 :
    logEv(S2, [e |-> "subshell", envBefore |-> S.env, cwdBefore |-> S.cwd,
               envInside |-> S1.env, cwdInside |-> S1.cwd,
               envAfter |-> S2.env, cwdAfter |-> S2.cwd])))

runIfClause(S, ifClause) ==
  Let(condLoop(S, ifClause.condition, 1, 0), LAMBDA S1 :
    IF S1.rc = 0 THEN bodyLoop(S1, ifClause.body, 1, 0)
    ELSE IF ifClause.hasElse THEN runCommand(S1, ifClause.elseClause)
    ELSE [S1 EXCEPT !.rc = 0])

\* the loop over the words: the test of running leaves the body only
forLoop(S, forClause, words, k, exitCode) ==
  IF k > Len(words) THEN [S EXCEPT !.rc = exitCode]
  ELSE Let(bodyLoop([S EXCEPT !.env = envSet(@, forClause.name, words[k])],
                    forClause.body, 1, exitCode), LAMBDA S2 :
         forLoop(S2, forClause, words, k + 1, S2.rc))

runForClause(S, forClause) ==
  Let(IF forClause.hasIn THEN expandWords(S, forClause.words, 1, <<>>)
      ELSE [S EXCEPT !.vals = << <<"$","1">>, <<"$","2">>, <<"$","3">> >>],
      LAMBDA S1 : forLoop(S1, forClause, S1.vals, 1, 0))

whileLoop(S, loop, exitCode) ==
  IF ~S.running \/ S.diverged THEN [S EXCEPT !.rc = exitCode]
  ELSE Let(condLoop(S, loop.condition, 1, 0), LAMBDA S1 :
         LET shouldContinue == IF loop.isUntil THEN S1.rc # 0 ELSE S1.rc = 0
         IN IF ~shouldContinue THEN [S1 EXCEPT !.rc = exitCode]
            ELSE Let(bodyLoop(S1, loop.body, 1, exitCode), LAMBDA S2 :
                   whileLoop(S2, loop, S2.rc)))

runLoopClause(S, loop) == whileLoop(S, loop, 0)

\* item k, pattern j of the case clause; word is the expanded subject
caseLoop(S, items, k, j, word) ==
  IF k > Len(items) THEN [S EXCEPT !.rc = 0]
  ELSE IF j > Len(items[k].patterns) THEN caseLoop(S, items, k + 1, 1, word)
  ELSE Let(expandWord(S, items[k].patterns[j]), LAMBDA S1 :
         IF globMatch(S1.val, word) THEN bodyLoop(S1, items[k].body, 1, 0)
         ELSE caseLoop(S1, items, k, j + 1, word))

runCaseClause(S, caseClause) ==
  Let(expandWord(S, caseClause.word), LAMBDA S1 :
    caseLoop(S1, caseClause.items, 1, 1, S1.val))

\* the observation of one assignment: S0 is the shell before the value was
\* expanded, S the shell after the assignment
assignDone(S0, S, cmd, k, value) ==
  logEv(S, [e |-> "assign", name |-> cmd.assignments[k].name,
            text |-> cmd.assignments[k].value.value, val |-> value,
            hasName |-> cmd.hasName, envAfter |-> S.env,
            shell |-> [S0 EXCEPT !.log = <<>>]])

assignLoop(S, cmd, k) ==
  IF k > Len(cmd.assignments) THEN S
  ELSE Let(expandWord(S, cmd.assignments[k].value), LAMBDA S1 :
         assignLoop(assignDone(S,
                               IF ~cmd.hasName
                               THEN [S1 EXCEPT !.env = envSet(@, cmd.assignments[k].name,
                                                              S1.val)]
                               ELSE S1,
                               cmd, k, S1.val),
                    cmd, k + 1))

OutputOps == {<<">">>, <<">","|">>, <<">",">">>}

\* the catch branch of the input redirection
lessFailure(S, target) ==
  write(S, S.stderr, <<"mrsh: ">> \o target \o <<": No such file or directory\n">>)

\* The loop over the redirections.  fr holds the frame's locals: id names the
\* buffer redirectOutput, file is redirectFile (hasFile: not null), append
\* is appendMode; failed records the early return of the < branch.
redirectLoop(S, redirects, k, fr) ==
  IF k > Len(redirects) THEN [S |-> S, fr |-> fr]
  ELSE LET redirect == redirects[k] IN
       Let(expandWord(S, redirect.name), LAMBDA S1 :
       Let(shellResolvePath(S1.env, S1.cwd, S1.val), LAMBDA path :
         LET target == S1.val IN
         IF redirect.op \in OutputOps
         THEN redirectLoop([S1 EXCEPT !.stdout = BufB(fr.id)], redirects, k + 1,
                           [fr EXCEPT !.file = path, !.hasFile = TRUE,
                                      !.append = (redirect.op = <<">",">">>)])
         ELSE IF redirect.op = <<">","&">>
         THEN redirectLoop(IF target = <<"2">> THEN [S1 EXCEPT !.stdout = S1.stderr]
                           ELSE S1, redirects, k + 1, fr)
         ELSE IF redirect.op = <<"<">>
         THEN IF fsCanRead(S1.fs, path)
              THEN redirectLoop([S1 EXCEPT !.pipeBuffer = S1.fs[path].data],
                                redirects, k + 1, fr)
              ELSE [S |-> lessFailure(S1, target), fr |-> [fr EXCEPT !.failed = TRUE]]
         ELSE redirectLoop(S1, redirects, k + 1, fr)))

\* a faulty variant of the registry miss: the generic failure code
commandNotFoundCode1(S, cmdName) ==
  [write(S, S.stderr, <<"mrsh: ">> \o cmdName \o <<": command not found\n">>)
     EXCEPT !.rc = 1]

\* the else branch of the registry lookup
commandNotFound(S, cmdName) ==
  [write(S, S.stderr, <<"mrsh: ">> \o cmdName \o <<": command not found\n">>)
     EXCEPT !.rc = 127]

\* a faulty variant of the catch around the action: the error is reported
\* with the code of a parse failure
caughtCode2(S, cmdName, msg) ==
  [write(S, S.stderr, cmdName \o <<": ">> \o msg \o <<"\n">>) EXCEPT !.rc = 2]

\* the catch around the action: this.stderr(`${cmdName}: ${e.message}\n`)
caught(S, cmdName, msg) ==
  [write(S, S.stderr, cmdName \o <<": ">> \o msg \o <<"\n">>) EXCEPT !.rc = 1]

\* lines "Look up command" to the end of the try/catch around the action
invoke(S, cmdName, args) ==
  IF cmdName \in S.commands
  THEN LET ctx == [args |-> parseArgs(args), stdout |-> S.stdout, stderr |-> S.stderr,
                   stdin |-> S.pipeBuffer, env |-> S.env, cwd |-> S.cwd]
       IN
       Let(action(S, cmdName, ctx), LAMBDA R :
       Let(IF R.threw THEN caught(R.S, cmdName, R.msg) ELSE [R.S EXCEPT !.rc = R.rc],
           LAMBDA S1 :
         logEv(S1,
               [e |-> "handler", name |-> cmdName, args |-> args, stdin |-> S.pipeBuffer,
                outB |-> S.stdout, errB |-> S.stderr, wrote |-> R.wrote,
                rc |-> S1.rc, threw |-> R.threw, msg |-> R.msg, env |-> S.env,
                envAfter |-> S1.env, cwd |-> S.cwd, cwdAfter |-> S1.cwd,
                fs |-> S.fs,
                errBefore |-> content(S, S.stderr),
                errAfter |-> content(S1, S.stderr)])))
  ELSE commandNotFound(S, cmdName)

\* "Write redirect output to file"
commitRedirect(S, fr) ==
  IF ~fr.hasFile THEN S
  ELSE IF fsCanWrite(S.fs, fr.file)
       THEN [S EXCEPT !.fs = IF fr.append THEN appendFileSync(@, fr.file, S.bufs[fr.id])
                               ELSE writeFileSync(@, fr.file, S.bufs[fr.id])]
       ELSE [write(S, S.stderr, <<"mrsh: ">> \o fr.file \o <<": ">>
                                \o <<"write failed">> \o <<"\n">>)
               EXCEPT !.rc = 1]

\* the observation of one simple command: S0 is the shell when
\* runSimpleCommand was entered, S the shell it returns
simpleDone(S0, S, cmd, cmdName, how) ==
  logEv(S, [e |-> "simple", how |-> how, cmd |-> cmd, name |-> cmdName,
            from |-> Len(S0.log), rc |-> S.rc, lec |-> S.lastExitCode,
            inAliases |-> (cmdName \in DOMAIN S0.aliases),
            inFunctions |-> (cmdName \in DOMAIN S0.functions),
            inRegistry |-> (cmdName \in S0.commands),
            outB |-> S0.stdout, outBefore |-> content(S0, S0.stdout),
            outAfter |-> content(S, S0.stdout), outBAfter |-> S.stdout,
            errBefore |-> S0.err, errAfter |-> S.err,
            fsBefore |-> S0.fs, fsAfter |-> S.fs, env |-> S0.env, cwd |-> S0.cwd])

\* return this.execute(...) of the alias branch.  An evaluation that would
\* nest more than MaxReexecute of these calls is cut off and marked as
\* diverged.
reExecute(S, input) ==
  IF S.depth >= MaxReexecute THEN [S EXCEPT !.diverged = TRUE, !.rc = 0]
  ELSE Let(execute([S EXCEPT !.depth = @ + 1], input), LAMBDA S1 :
         [S1 EXCEPT !.depth = S.depth])

runSimpleCommand(S, cmd) ==
  Let(assignLoop(S, cmd, 1), LAMBDA S1 :
  IF ~cmd.hasName THEN simpleDone(S, [S1 EXCEPT !.rc = 0], cmd, <<>>, "assign")
  ELSE
  Let(expandWord(S1, cmd.name), LAMBDA S2 :
  LET cmdName == S2.val IN
  IF cmdName \in DOMAIN S2.aliases /\ S2.aliases[cmdName] # <<>>
  THEN Let(expandWords(S2, cmd.arguments, 1, <<>>), LAMBDA S3 :
         simpleDone(S, reExecute(S3, S2.aliases[cmdName] \o <<" ">>
                                       \o join(S3.vals, <<" ">>)),
                    cmd, cmdName, "alias"))
  ELSE IF cmdName \in DOMAIN S2.functions
  THEN simpleDone(S, runCommand(S2, S2.functions[cmdName]), cmd, cmdName, "function")
  ELSE
  Let(expandWords(S2, cmd.arguments, 1, <<>>), LAMBDA S3 :
  LET args == S3.vals
      savedStdout == S3.stdout
      savedStderr == S3.stderr
  IN
  Let(newBuf(S3), LAMBDA S4 :
  Let(redirectLoop(S4, cmd.redirects, 1,
                   [id |-> Len(S4.bufs), file |-> <<>>, hasFile |-> FALSE,
                    append |-> FALSE, failed |-> FALSE]), LAMBDA R :
  IF R.fr.failed THEN simpleDone(S, [R.S EXCEPT !.rc = 1], cmd, cmdName, "less")
  ELSE
  Let(commitRedirect(invoke(R.S, cmdName, args), R.fr), LAMBDA S6 :
    simpleDone(S, [S6 EXCEPT !.stdout = savedStdout, !.stderr = savedStderr,
                             !.lastExitCode = S6.rc],
               cmd, cmdName, "run")))))))

(***************************************************************************)
(* The shell and its host                                                  *)
(***************************************************************************)
VARIABLES
  env, cwd, stateCwd,        \* Shell.env, Shell.cwd, Shell.state.cwd
  stdout, stderr,            \* the callbacks Shell.stdout / Shell.stderr hold
  pipeBuffer,                \* Shell.pipeBuffer
  lastExitCode, running,     \* Shell.state.lastExitCode / running
  fs,                        \* the filesystem behind Shell.fs
  aliases, functions,        \* Shell.aliases, Shell.functions
  commands,                  \* the names registered in Shell.commands
  phase,                     \* "idle", or "done": an execute() call has returned
  src,                       \* the text given to that call
  rc,                        \* what the call returned
  out, err,                  \* what the host's callbacks received during it
  log,                       \* what happened during it
  pre,                       \* the shell as it was when the call was made
  diverged,                  \* the call was cut off (see MaxStatements)
  steps                      \* host calls made so far

vars ==
  <<env, cwd, stateCwd, stdout, stderr, pipeBuffer, lastExitCode, running, fs,
    aliases, functions, commands, phase, src, rc, out, err, log, pre, diverged, steps>>

\* host calls in one run of the model
MaxSteps == 2

\* statements one execute() call may start before it is cut off
MaxStatements == 12

\* echo a b
Src_echo ==
  <<"e", "c", "h", "o", " ", "a", " ", "b">>

\* echo a > out.txt < missing.txt
Src_leak ==
  <<"e", "c", "h", "o", " ", "a", " ", ">", " ", "o", "u", "t", ".", "t", "x", "t",
    " ", "<", " ", "m", "i", "s", "s", "i", "n", "g", ".", "t", "x", "t">>

\* echo a >&2 < missing.txt
Src_leak2 ==
  <<"e", "c", "h", "o", " ", "a", " ", ">", "&", "2", " ", "<", " ", "m", "i", "s",
    "s", "i", "n", "g", ".", "t", "x", "t">>

\* for i in a b; do echo $i; exit 3; done
Src_forExit ==
  <<"f", "o", "r", " ", "i", " ", "i", "n", " ", "a", " ", "b", ";", " ", "d", "o",
    " ", "e", "c", "h", "o", " ", "$", "i", ";", " ", "e", "x", "i", "t", " ", "3",
    ";", " ", "d", "o", "n", "e">>

\* echo a; exit 2; echo b
Src_seqExit ==
  <<"e", "c", "h", "o", " ", "a", ";", " ", "e", "x", "i", "t", " ", "2", ";", " ",
    "e", "c", "h", "o", " ", "b">>

\* { exit 4; echo a; }; echo b
Src_braceExit ==
  <<"{", " ", "e", "x", "i", "t", " ", "4", ";", " ", "e", "c", "h", "o", " ", "a",
    ";", " ", "}", ";", " ", "e", "c", "h", "o", " ", "b">>

\* ( X=1; cd /tmp; unset HOME; pwd ); pwd
Src_subshell ==
  <<"(", " ", "X", "=", "1", ";", " ", "c", "d", " ", "/", "t", "m", "p", ";", " ",
    "u", "n", "s", "e", "t", " ", "H", "O", "M", "E", ";", " ", "p", "w", "d", " ",
    ")", ";", " ", "p", "w", "d">>

\* cd /tmp; ( cd -; Y=2 ); echo $Y
Src_subCd ==
  <<"c", "d", " ", "/", "t", "m", "p", ";", " ", "(", " ", "c", "d", " ", "-", ";",
    " ", "Y", "=", "2", " ", ")", ";", " ", "e", "c", "h", "o", " ", "$", "Y">>

\* echo a &&
Src_parseErr1 ==
  <<"e", "c", "h", "o", " ", "a", " ", "&", "&">>

\* X=1; cd /tmp; echo a |
Src_parseErr2 ==
  <<"X", "=", "1", ";", " ", "c", "d", " ", "/", "t", "m", "p", ";", " ", "e", "c",
    "h", "o", " ", "a", " ", "|">>

\* echo a > f.txt; cat <
Src_parseErr3 ==
  <<"e", "c", "h", "o", " ", "a", " ", ">", " ", "f", ".", "t", "x", "t", ";", " ",
    "c", "a", "t", " ", "<">>

\* true && echo a || echo b
Src_andOr1 ==
  <<"t", "r", "u", "e", " ", "&", "&", " ", "e", "c", "h", "o", " ", "a", " ", "|",
    "|", " ", "e", "c", "h", "o", " ", "b">>

\* false && echo a || echo b
Src_andOr2 ==
  <<"f", "a", "l", "s", "e", " ", "&", "&", " ", "e", "c", "h", "o", " ", "a", " ",
    "|", "|", " ", "e", "c", "h", "o", " ", "b">>

\* false || nosuch && echo c || echo $?
Src_andOr3 ==
  <<"f", "a", "l", "s", "e", " ", "|", "|", " ", "n", "o", "s", "u", "c", "h", " ",
    "&", "&", " ", "e", "c", "h", "o", " ", "c", " ", "|", "|", " ", "e", "c", "h",
    "o", " ", "$", "?">>

\* echo a | cat
Src_pipe1 ==
  <<"e", "c", "h", "o", " ", "a", " ", "|", " ", "c", "a", "t">>

\* echo a b | cat | cat -
Src_pipe2 ==
  <<"e", "c", "h", "o", " ", "a", " ", "b", " ", "|", " ", "c", "a", "t", " ", "|",
    " ", "c", "a", "t", " ", "-">>

\* cat nofile | echo x | false
Src_pipe3 ==
  <<"c", "a", "t", " ", "n", "o", "f", "i", "l", "e", " ", "|", " ", "e", "c", "h",
    "o", " ", "x", " ", "|", " ", "f", "a", "l", "s", "e">>

\* ! { echo a; echo b; } | cat
Src_pipe4 ==
  <<"!", " ", "{", " ", "e", "c", "h", "o", " ", "a", ";", " ", "e", "c", "h", "o",
    " ", "b", ";", " ", "}", " ", "|", " ", "c", "a", "t">>

\* ! false
Src_neg1 ==
  <<"!", " ", "f", "a", "l", "s", "e">>

\* ! echo a | exit 5
Src_neg2 ==
  <<"!", " ", "e", "c", "h", "o", " ", "a", " ", "|", " ", "e", "x", "i", "t", " ",
    "5">>

\* echo a > f.txt; echo b >> f.txt; cat f.txt
Src_redir1 ==
  <<"e", "c", "h", "o", " ", "a", " ", ">", " ", "f", ".", "t", "x", "t", ";", " ",
    "e", "c", "h", "o", " ", "b", " ", ">", ">", " ", "f", ".", "t", "x", "t", ";",
    " ", "c", "a", "t", " ", "f", ".", "t", "x", "t">>

\* echo b >| /tmp/g; echo c > /nodir/h
Src_redir2 ==
  <<"e", "c", "h", "o", " ", "b", " ", ">", "|", " ", "/", "t", "m", "p", "/", "g",
    ";", " ", "e", "c", "h", "o", " ", "c", " ", ">", " ", "/", "n", "o", "d", "i",
    "r", "/", "h">>

\* pwd >> f.txt
Src_redir3 ==
  <<"p", "w", "d", " ", ">", ">", " ", "f", ".", "t", "x", "t">>

\* cat < missing.txt
Src_less1 ==
  <<"c", "a", "t", " ", "<", " ", "m", "i", "s", "s", "i", "n", "g", ".", "t", "x",
    "t">>

\* echo hi > f.txt; cat < f.txt
Src_less2 ==
  <<"e", "c", "h", "o", " ", "h", "i", " ", ">", " ", "f", ".", "t", "x", "t", ";",
    " ", "c", "a", "t", " ", "<", " ", "f", ".", "t", "x", "t">>

\* cat < /tmp
Src_less3 ==
  <<"c", "a", "t", " ", "<", " ", "/", "t", "m", "p">>

\* nosuch a
Src_notFound1 ==
  <<"n", "o", "s", "u", "c", "h", " ", "a">>

\* nosuch < missing.txt
Src_notFound2 ==
  <<"n", "o", "s", "u", "c", "h", " ", "<", " ", "m", "i", "s", "s", "i", "n", "g",
    ".", "t", "x", "t">>

\* nosuch > /nodir/h
Src_notFound3 ==
  <<"n", "o", "s", "u", "c", "h", " ", ">", " ", "/", "n", "o", "d", "i", "r", "/",
    "h">>

\* nosuch > f.txt
Src_notFound4 ==
  <<"n", "o", "s", "u", "c", "h", " ", ">", " ", "f", ".", "t", "x", "t">>

\* ll > f.txt
Src_alias1 ==
  <<"l", "l", " ", ">", " ", "f", ".", "t", "x", "t">>

\* ll < missing.txt
Src_alias2 ==
  <<"l", "l", " ", "<", " ", "m", "i", "s", "s", "i", "n", "g", ".", "t", "x", "t">>

\* fn x > f.txt
Src_fn1 ==
  <<"f", "n", " ", "x", " ", ">", " ", "f", ".", "t", "x", "t">>

\* boom | cat; boom > f.txt
Src_boom ==
  <<"b", "o", "o", "m", " ", "|", " ", "c", "a", "t", ";", " ", "b", "o", "o", "m",
    " ", ">", " ", "f", ".", "t", "x", "t">>

\* if false; then echo a; else echo b; fi
Src_if ==
  <<"i", "f", " ", "f", "a", "l", "s", "e", ";", " ", "t", "h", "e", "n", " ", "e",
    "c", "h", "o", " ", "a", ";", " ", "e", "l", "s", "e", " ", "e", "c", "h", "o",
    " ", "b", ";", " ", "f", "i">>

\* while true; do echo x; exit 1; echo y; done; echo z
Src_while ==
  <<"w", "h", "i", "l", "e", " ", "t", "r", "u", "e", ";", " ", "d", "o", " ", "e",
    "c", "h", "o", " ", "x", ";", " ", "e", "x", "i", "t", " ", "1", ";", " ", "e",
    "c", "h", "o", " ", "y", ";", " ", "d", "o", "n", "e", ";", " ", "e", "c", "h",
    "o", " ", "z">>

\* case abc in x) echo no;; a*) echo yes;; esac
Src_case ==
  <<"c", "a", "s", "e", " ", "a", "b", "c", " ", "i", "n", " ", "x", ")", " ", "e",
    "c", "h", "o", " ", "n", "o", ";", ";", " ", "a", "*", ")", " ", "e", "c", "h",
    "o", " ", "y", "e", "s", ";", ";", " ", "e", "s", "a", "c">>

\* X=1 < missing.txt; echo $X ${Y:-d} ${#X} $?
Src_assign ==
  <<"X", "=", "1", " ", "<", " ", "m", "i", "s", "s", "i", "n", "g", ".", "t", "x",
    "t", ";", " ", "e", "c", "h", "o", " ", "$", "X", " ", "$", "{", "Y", ":", "-",
    "d", "}", " ", "$", "{", "#", "X", "}", " ", "$", "?">>

\* boom; echo $?
Src_boom2 ==
  <<"b", "o", "o", "m", ";", " ", "e", "c", "h", "o", " ", "$", "?">>

\* echo $(echo hi)
Src_subst1 ==
  <<"e", "c", "h", "o", " ", "$", "(", "e", "c", "h", "o", " ", "h", "i", ")">>

\* echo a`echo hi; echo ho`b
Src_subst2 ==
  <<"e", "c", "h", "o", " ", "a", BQ, "e", "c", "h", "o", " ", "h", "i", ";", " ", "e",
    "c", "h", "o", " ", "h", "o", BQ, "b">>

\* X=1; echo $X
Src_assign1 ==
  <<"X", "=", "1", ";", " ", "e", "c", "h", "o", " ", "$", "X">>

\* Y=v; X=$Y; echo $X
Src_assign2 ==
  <<"Y", "=", "v", ";", " ", "X", "=", "$", "Y", ";", " ", "e", "c", "h", "o", " ",
    "$", "X">>

\* X=1 echo a
Src_prefix1 ==
  <<"X", "=", "1", " ", "e", "c", "h", "o", " ", "a">>

\* HOME=/tmp cd; pwd
Src_prefix2 ==
  <<"H", "O", "M", "E", "=", "/", "t", "m", "p", " ", "c", "d", ";", " ", "p", "w",
    "d">>

\* X=; echo ${X-w}${X+w}
Src_cond1 ==
  <<"X", "=", ";", " ", "e", "c", "h", "o", " ", "$", "{", "X", "-", "w", "}", "$",
    "{", "X", "+", "w", "}">>

\* echo ${X:-w}${X:+w}
Src_cond2 ==
  <<"e", "c", "h", "o", " ", "$", "{", "X", ":", "-", "w", "}", "$", "{", "X", ":",
    "+", "w", "}">>

\* X=v; echo ${X:=d} $X
Src_cond3 ==
  <<"X", "=", "v", ";", " ", "e", "c", "h", "o", " ", "$", "{", "X", ":", "=", "d",
    "}", " ", "$", "X">>

\* echo ${X:=d} $X; echo $X
Src_cond4 ==
  <<"e", "c", "h", "o", " ", "$", "{", "X", ":", "=", "d", "}", " ", "$", "X", ";", " ",
    "e", "c", "h", "o", " ", "$", "X">>

\* echo ${X:?msg}; echo $?
Src_cond5 ==
  <<"e", "c", "h", "o", " ", "$", "{", "X", ":", "?", "m", "s", "g", "}", ";", " ",
    "e", "c", "h", "o", " ", "$", "?">>

\* X=a:b:c; echo ${X#*:} ${X##*:} ${X%:*} ${X%%:*}
Src_strip1 ==
  <<"X", "=", "a", ":", "b", ":", "c", ";", " ", "e", "c", "h", "o", " ", "$", "{",
    "X", "#", "*", ":", "}", " ", "$", "{", "X", "#", "#", "*", ":", "}", " ", "$",
    "{", "X", "%", ":", "*", "}", " ", "$", "{", "X", "%", "%", ":", "*", "}">>

\* X=abc; echo ${X#?} ${X%z} ${X##b*} ${X%%}
Src_strip2 ==
  <<"X", "=", "a", "b", "c", ";", " ", "e", "c", "h", "o", " ", "$", "{", "X", "#",
    "?", "}", " ", "$", "{", "X", "%", "z", "}", " ", "$", "{", "X", "#", "#", "b",
    "*", "}", " ", "$", "{", "X", "%", "%", "}">>

\* echo $((7/2)) $((-7/2))
Src_arith1 ==
  <<"e", "c", "h", "o", " ", "$", "(", "(", "7", "/", "2", ")", ")", " ", "$", "(", "(", "-", "7", "/", "2", ")", ")">>

\* echo $((2+3)) $((7%3)) $((2-3)) $((2*3))
Src_arith2 ==
  <<"e", "c", "h", "o", " ", "$", "(", "(", "2", "+", "3", ")", ")", " ", "$", "(", "(", "7", "%", "3", ")", ")", " ", "$", "(", "(", "2", "-", "3", ")", ")", " ", "$", "(", "(", "2", "*", "3", ")", ")">>

\* echo r$((-7/2
Src_arith3 ==
  <<"e", "c", "h", "o", " ", "r", "$", "(", "(", "-", "7", "/", "2">>

\* X=5; echo r$((010+$X*-3
Src_arith4 ==
  <<"X", "=", "5", ";", " ", "e", "c", "h", "o", " ", "r", "$", "(", "(", "0", "1", "0", "+", "$", "X", "*", "-", "3">>

\* if false;then echo 1;elif true;then echo 2;else echo 3;fi
Src_elif1 ==
  <<"i", "f", " ", "f", "a", "l", "s", "e", ";", "t", "h", "e", "n", " ", "e", "c",
    "h", "o", " ", "1", ";", "e", "l", "i", "f", " ", "t", "r", "u", "e", ";", "t",
    "h", "e", "n", " ", "e", "c", "h", "o", " ", "2", ";", "e", "l", "s", "e", " ",
    "e", "c", "h", "o", " ", "3", ";", "f", "i">>

\* if true;then echo 1;elif false;then echo 2;else echo 3;fi
Src_elif2 ==
  <<"i", "f", " ", "t", "r", "u", "e", ";", "t", "h", "e", "n", " ", "e", "c", "h",
    "o", " ", "1", ";", "e", "l", "i", "f", " ", "f", "a", "l", "s", "e", ";", "t",
    "h", "e", "n", " ", "e", "c", "h", "o", " ", "2", ";", "e", "l", "s", "e", " ",
    "e", "c", "h", "o", " ", "3", ";", "f", "i">>

\* if false;then echo 1;elif false;then echo 2;else echo 3;fi
Src_elif3 ==
  <<"i", "f", " ", "f", "a", "l", "s", "e", ";", "t", "h", "e", "n", " ", "e", "c",
    "h", "o", " ", "1", ";", "e", "l", "i", "f", " ", "f", "a", "l", "s", "e", ";",
    "t", "h", "e", "n", " ", "e", "c", "h", "o", " ", "2", ";", "e", "l", "s", "e",
    " ", "e", "c", "h", "o", " ", "3", ";", "f", "i">>

\* need x
Src_need ==
  <<"n", "e", "e", "d", " ", "x">>

\* cd ..//user/./..; cd -; cd /no; cd ~
Src_cd1 ==
  <<"c", "d", " ", ".", ".", "/", "/", "u", "s", "e", "r", "/", ".", "/", ".", ".",
    ";", " ", "c", "d", " ", "-", ";", " ", "c", "d", " ", "/", "n", "o", ";", " ",
    "c", "d", " ", "~">>

\* cd /tmp/; (cd /); cd ../bin/.
Src_cd2 ==
  <<"c", "d", " ", "/", "t", "m", "p", "/", ";", " ", "(", "c", "d", " ", "/", ")",
    ";", " ", "c", "d", " ", ".", ".", "/", "b", "i", "n", "/", ".">>

\* cd /; cd ..; cd home//user/f
Src_cd3 ==
  <<"c", "d", " ", "/", ";", " ", "c", "d", " ", ".", ".", ";", " ", "c", "d", " ",
    "h", "o", "m", "e", "/", "/", "u", "s", "e", "r", "/", "f">>

\* echo a ) echo b
Src_stray1 ==
  <<"e", "c", "h", "o", " ", "a", " ", ")", " ", "e", "c", "h", "o", " ", "b">>

\* echo a & echo b
Src_stray2 ==
  <<"e", "c", "h", "o", " ", "a", " ", "&", " ", "e", "c", "h", "o", " ", "b">>

\* echo a; fi; echo b
Src_stray3 ==
  <<"e", "c", "h", "o", " ", "a", ";", " ", "f", "i", ";", " ", "e", "c", "h", "o",
    " ", "b">>

\* echo a then
Src_stray4 ==
  <<"e", "c", "h", "o", " ", "a", " ", "t", "h", "e", "n">>

\* echo a$
Src_dollar ==
  <<"e", "c", "h", "o", " ", "a", "$">>

\* echo $((1+$X)) ${X:=(2}
Src_late ==
  <<"e", "c", "h", "o", " ", "$", "(", "(", "1", "+", "$", "X", ")", ")", " ", "$",
    "{", "X", ":", "=", "(", "2", "}">>

\* echo a${X:=(3}$((1+$X))
Src_late2 ==
  <<"e", "c", "h", "o", " ", "a", "$", "{", "X", ":", "=", "(", "3", "}", "$", "(",
    "(", "1", "+", "$", "X", ")", ")">>

\* echo hi > f.txt; cat < f.txt; cat
Src_stdin ==
  <<"e", "c", "h", "o", " ", "h", "i", " ", ">", " ", "f", ".", "t", "x", "t", ";",
    " ", "c", "a", "t", " ", "<", " ", "f", ".", "t", "x", "t", ";", " ", "c", "a",
    "t">>

\* false; X=1; echo $?; ! true; echo $?
Src_status ==
  <<"f", "a", "l", "s", "e", ";", " ", "X", "=", "1", ";", " ", "e", "c", "h", "o",
    " ", "$", "?", ";", " ", "!", " ", "t", "r", "u", "e", ";", " ", "e", "c", "h",
    "o", " ", "$", "?">>

\* echo a 2> f.txt
Src_fd2 ==
  <<"e", "c", "h", "o", " ", "a", " ", "2", ">", " ", "f", ".", "t", "x", "t">>

Sources ==
  {Src_echo, Src_leak, Src_leak2, Src_forExit, Src_seqExit, Src_braceExit,
   Src_subshell, Src_subCd, Src_parseErr1, Src_parseErr2, Src_parseErr3, Src_andOr1,
   Src_andOr2, Src_andOr3, Src_pipe1, Src_pipe2, Src_pipe3, Src_pipe4, Src_neg1,
   Src_neg2, Src_redir1, Src_redir2, Src_redir3, Src_less1, Src_less2, Src_less3,
   Src_notFound1, Src_notFound2, Src_notFound3, Src_notFound4, Src_alias1,
   Src_alias2, Src_fn1, Src_boom, Src_if, Src_while, Src_case, Src_assign, Src_boom2,
   Src_subst1, Src_subst2, Src_assign1, Src_assign2, Src_prefix1, Src_prefix2, Src_cond1,
   Src_cond2, Src_cond3, Src_cond4, Src_cond5, Src_strip1, Src_strip2, Src_arith1,
   Src_arith2, Src_arith3, Src_arith4, Src_elif1, Src_elif2, Src_elif3, Src_need,
   Src_cd1, Src_cd2, Src_cd3, Src_stray1, Src_stray2, Src_stray3, Src_stray4, Src_dollar,
   Src_late, Src_late2, Src_stdin, Src_status, Src_fd2}


\* echo hi
AliasEcho == <<"e","c","h","o"," ","h","i">>

\* an alias value that begins with the alias's own name: ll -l
AliasSelf == <<"l","l"," ","-","l">>

AliasValues == {AliasEcho, Name.cat, AliasSelf}

\* the command of the one-statement program text
commandOf(text) == parse(text).node.commands[1].andOrList.first.commands[1]

\* echo fn
FnEcho == <<"e","c","h","o"," ","f","n">>

FunctionBodies == {commandOf(FnEcho)}

EmptyMap == [n \in {} |-> <<>>]

NoPre == [stdout |-> HostOut, stderr |-> HostErr, env |-> EmptyMap, cwd |-> <<>>,
          fs |-> EmptyMap, lastExitCode |-> 0]

\* new Shell() with no options, on the filesystem initFileSystem leaves
Init ==
  /\ env = [n \in {Var.HOME, Var.PWD, Var.PATH, Var.PS1} |->
              CASE n = Var.HOME -> HomeUser
                [] n = Var.PWD  -> HomeUser
                [] n = Var.PATH -> <<"/","b","i","n",":","/","u","s","r","/","b","i","n">>
                [] n = Var.PS1  -> <<"$"," ">>]
  /\ cwd = HomeUser
  /\ stateCwd = HomeUser
  /\ stdout = HostOut
  /\ stderr = HostErr
  /\ pipeBuffer = <<>>
  /\ lastExitCode = 0
  /\ running = TRUE
  /\ fs = [q \in {<<"/">>, <<"/","h","o","m","e">>, HomeUser, <<"/","t","m","p">>,
                  <<"/","b","i","n">>} |-> DirNode]
  /\ aliases = EmptyMap
  /\ functions = EmptyMap
  /\ commands = Builtins
  /\ phase = "idle"
  /\ src = <<>>
  /\ rc = 0
  /\ out = <<>>
  /\ err = <<>>
  /\ log = <<>>
  /\ pre = NoPre
  /\ diverged = FALSE
  /\ steps = 0

\* the Shell object as an execute() call finds it
shellOf ==
  [env |-> env, cwd |-> cwd, stateCwd |-> stateCwd, stdout |-> stdout,
   stderr |-> stderr, pipeBuffer |-> pipeBuffer, lastExitCode |-> lastExitCode,
   running |-> running, fs |-> fs, aliases |-> aliases, functions |-> functions,
   commands |-> commands, out |-> <<>>, err |-> <<>>, bufs |-> <<>>, log |-> <<>>,
   rc |-> 0, uid |-> 0, fuel |-> MaxStatements, depth |-> 0, diverged |-> FALSE,
   val |-> <<>>, vals |-> <<>>]

\* a closure over a local of a frame that has returned: nothing reads what
\* it appends
settle(b) == IF b.k = "buf" THEN DeadB ELSE b

HostIdle == phase = "idle" /\ running /\ steps < MaxSteps

\* the host (the terminal's line handler) calls shell.execute(input); it
\* prompts for another line only while the shell is running
Execute(input) ==
  /\ HostIdle
  /\ \E S \in {execute(shellOf, input)} :
       /\ env' = S.env
       /\ cwd' = S.cwd
       /\ stateCwd' = S.stateCwd
       /\ stdout' = settle(S.stdout)
       /\ stderr' = settle(S.stderr)
       /\ pipeBuffer' = S.pipeBuffer
       /\ lastExitCode' = S.lastExitCode
       /\ running' = S.running
       /\ fs' = S.fs
       /\ rc' = S.rc
       /\ out' = S.out
       /\ err' = S.err
       /\ log' = S.log
       /\ diverged' = S.diverged
  /\ pre' = [stdout |-> stdout, stderr |-> stderr, env |-> env, cwd |-> cwd,
             fs |-> fs, lastExitCode |-> lastExitCode]
  /\ src' = input
  /\ phase' = "done"
  /\ steps' = steps + 1
  /\ UNCHANGED <<aliases, functions, commands>>

\* the host has consumed the result of the call
Flush ==
  /\ phase = "done"
  /\ phase' = "idle"
  /\ src' = <<>>
  /\ rc' = 0
  /\ out' = <<>>
  /\ err' = <<>>
  /\ log' = <<>>
  /\ pre' = NoPre
  /\ diverged' = FALSE
  /\ UNCHANGED <<env, cwd, stateCwd, stdout, stderr, pipeBuffer, lastExitCode,
                 running, fs, aliases, functions, commands, steps>>

HostFrame ==
  UNCHANGED <<env, cwd, stateCwd, stdout, stderr, pipeBuffer, lastExitCode, running,
              fs, phase, src, rc, out, err, log, pre, diverged>>

SetAlias(name, value) ==
  /\ HostIdle
  /\ aliases' = envSet(aliases, name, value)
  /\ steps' = steps + 1
  /\ UNCHANGED <<functions, commands>>
  /\ HostFrame

UnsetAlias(name) ==
  /\ HostIdle
  /\ name \in DOMAIN aliases
  /\ aliases' = envDelete(aliases, name)
  /\ steps' = steps + 1
  /\ UNCHANGED <<functions, commands>>
  /\ HostFrame

DefineFunction(name, body) ==
  /\ HostIdle
  /\ functions' = envSet(functions, name, body)
  /\ steps' = steps + 1
  /\ UNCHANGED <<aliases, commands>>
  /\ HostFrame

\* the host registers a command whose action throws
RegisterCommand(name) ==
  /\ HostIdle
  /\ name \notin commands
  /\ commands' = commands \cup {name}
  /\ steps' = steps + 1
  /\ UNCHANGED <<aliases, functions>>
  /\ HostFrame

Next ==
  \/ \E input \in Sources : Execute(input)
  \/ Flush
  \/ \E value \in AliasValues : SetAlias(Name.ll, value)
  \/ UnsetAlias(Name.ll)
  \/ \E body \in FunctionBodies : DefineFunction(Name.fn, body)
  \/ \E name \in HostCommands : RegisterCommand(name)

Spec == Init /\ [][Next]_vars

(***************************************************************************)
(* Properties.  They are stated on the states in which an execute() call   *)
(* has just returned: log holds what happened during the call, pre the     *)
(* shell the call found.                                                   *)
(***************************************************************************)
Pos == DOMAIN log

Returned == phase = "done"

\* the handler invocations logged strictly between positions lo and hi
HandlersIn(lo, hi) == {i \in Pos : lo < i /\ i < hi /\ log[i].e = "handler"}

\* the text the handlers logged at positions lo..hi passed to callback b
RECURSIVE WroteTo(_, _, _)
WroteTo(lo, hi, b) ==
  IF lo > hi THEN <<>>
  ELSE (IF log[lo].e = "handler" /\ log[lo].outB = b THEN log[lo].wrote ELSE <<>>)
       \o WroteTo(lo + 1, hi, b)

\* C1: when an execute() call has returned, the shell's stdout and stderr
\* bindings are the callbacks they were when the call was made, whatever
\* happened inside the call.
C1_BindingsRestored == Returned => (stdout = pre.stdout /\ stderr = pre.stderr)

\* C2: once exit(code) has been called during an execute() call, no further
\* statement (command list) is started in that call.
C2_NoStatementAfterExit ==
  \A i \in Pos : \A j \in Pos : (log[i].e = "exit" /\ i < j) => log[j].e # "stmt"

\* C3: a subshell leaves the environment (every name and value) and the cwd
\* of its parent exactly as they were when the subshell started.
C3_SubshellIsolation ==
  \A i \in Pos : log[i].e = "subshell" =>
     /\ log[i].envAfter = log[i].envBefore
     /\ log[i].cwdAfter = log[i].cwdBefore

\* a subshell whose body assigned a variable, unset another and changed
\* directory (PWD and cwd differ inside) has returned
C3_Witness ==
  \E i \in Pos :
     /\ log[i].e = "subshell"
     /\ log[i].cwdInside # log[i].cwdBefore
     /\ Var.HOME \in DOMAIN log[i].envBefore /\ Var.HOME \notin DOMAIN log[i].envInside
     /\ \E n \in DOMAIN log[i].envInside : n \notin DOMAIN log[i].envBefore
     /\ log[i].envInside[Var.PWD] # log[i].envBefore[Var.PWD]
     /\ log[i].envAfter = log[i].envBefore
     /\ cwd = pre.cwd

\* C4: if the source text fails to parse, execute() writes the one message
\* "mrsh: <message>\n" to stderr, sets lastExitCode to 2 and returns 2; no
\* handler is invoked, nothing of the source is executed, and environment,
\* cwd and filesystem are as the call found them.
C4_ParseFailure ==
  (Returned /\ parse(src).err) =>
     /\ err = <<"mrsh: ">> \o parse(src).msg \o <<"\n">>
     /\ out = <<>>
     /\ rc = 2
     /\ lastExitCode = 2
     /\ log = <<>>
     /\ env = pre.env /\ cwd = pre.cwd /\ fs = pre.fs

\* a call has returned whose text holds two well-formed statements (an
\* assignment and a cd) before the malformed one, on a shell whose
\* lastExitCode was not 2
C4_Witness ==
  /\ Returned
  /\ src = Src_parseErr2
  /\ parse(src).err
  /\ pre.lastExitCode # 2
  /\ rc = 2

\* the and-or list lid: the indices of its pipelines that ran, the log
\* position at which pipeline k finished, and the code it returned
Ran(lid) == {log[i].idx : i \in {j \in Pos : log[j].e = "pfin" /\ log[j].lid = lid}}

PfinAt(lid, k) ==
  CHOOSE i \in Pos : log[i].e = "pfin" /\ log[i].lid = lid /\ log[i].idx = k

CodeOf(lid, k) == log[PfinAt(lid, k)].rc

MaxOf(set) == CHOOSE m \in set : \A x \in set : x <= m

\* the pipeline of lid that ran most recently before pipeline k
LastRanBefore(lid, k) == MaxOf({j \in Ran(lid) : j < k})

\* C5: in an and-or list P0 op1 P1 ... opn Pn, Pi (i >= 1) runs if and only
\* if the exit code of the most recently run pipeline is 0 when opi is &&,
\* nonzero when opi is ||; the pipelines that run do so from left to right,
\* and the list returns the code of the last pipeline that ran.
C5_AndOrShortCircuit ==
  \A i \in Pos : log[i].e = "lfin" =>
     LET lid == log[i].lid
         ops == log[i].ops
     IN /\ 0 \in Ran(lid)
        /\ \A k \in DOMAIN ops :
              (k \in Ran(lid)) <=>
                 (IF ops[k] = "and" THEN CodeOf(lid, LastRanBefore(lid, k)) = 0
                  ELSE CodeOf(lid, LastRanBefore(lid, k)) # 0)
        /\ \A j, k \in Ran(lid) : j < k => PfinAt(lid, j) < PfinAt(lid, k)
        /\ log[i].rc = CodeOf(lid, MaxOf(Ran(lid)))

\* a list of four pipelines has returned in which an || ran its pipeline
\* after a failure, an && skipped its pipeline after a failure, and the
\* next || ran its pipeline on the code the skipped one left unchanged
C5_Witness ==
  \E i \in Pos :
     /\ log[i].e = "lfin"
     /\ log[i].ops = <<"or", "and", "or">>
     /\ Ran(log[i].lid) = {0, 1, 3}
     /\ CodeOf(log[i].lid, 1) = 127
     /\ log[i].rc = CodeOf(log[i].lid, 3)

\* the log positions at which stage k of pipeline pid began and ended
StageAt(pid, k) ==
  CHOOSE i \in Pos : log[i].e = "stage" /\ log[i].pid = pid /\ log[i].i = k

StageEndAt(pid, k) ==
  CHOOSE i \in Pos : log[i].e = "stageEnd" /\ log[i].pid = pid /\ log[i].i = k

\* stage k of pipeline pid is a simple command without redirections that
\* went to the registry: the handler called in it is the stage's own
DirectStage(pid, k) ==
  /\ log[StageAt(pid, k)].cmd.type = "simple"
  /\ log[StageAt(pid, k)].cmd.redirects = <<>>
  /\ log[StageEndAt(pid, k) - 1].e = "simple"
  /\ log[StageEndAt(pid, k) - 1].how = "run"

\* C6: in a pipeline c1 | ... | cn, n >= 2, the stages run one after another
\* from left to right; c1 is given an empty stdin, c(k+1) is given exactly
\* the text c(k) wrote to its stdout; the stdout of every stage but the last
\* is a capture distinct from the stdout in force before the pipeline, the
\* stdout of the last is that stdout; every handler of every stage has the
\* enclosing stderr.
C6_PipelinePlumbing ==
  \A p \in Pos : (log[p].e = "pipe" /\ log[p].n >= 2) =>
     LET pid == log[p].pid
         n   == log[p].n
     IN \A k \in 1..n :
          LET b == StageAt(pid, k)
              e == StageEndAt(pid, k)
          IN /\ b < e /\ e < p
             /\ k < n => e < StageAt(pid, k + 1)
             /\ log[b].stdin =
                  IF k = 1 THEN <<>>
                  ELSE WroteTo(StageAt(pid, k - 1), StageEndAt(pid, k - 1),
                               log[StageAt(pid, k - 1)].outB)
             /\ log[b].enc = log[StageAt(pid, 1)].enc
             /\ IF k < n THEN log[b].outB.k = "buf" /\ log[b].outB # log[b].enc
                ELSE log[b].outB = log[b].enc
             /\ log[b].errB = log[StageAt(pid, 1)].errB
             /\ \A h \in HandlersIn(b, e) : log[h].errB = log[b].errB
             /\ DirectStage(pid, k) =>
                  \A h \in HandlersIn(b, e) :
                     log[h].stdin = log[b].stdin /\ log[h].outB = log[b].outB

\* a three-stage pipeline has returned whose second and third stage were
\* given the non-empty text the stage before wrote, and whose last stage
\* alone wrote to the host's stdout
C6_Witness ==
  \E p \in Pos :
     /\ log[p].e = "pipe" /\ log[p].n = 3
     /\ log[StageAt(log[p].pid, 1)].stdin = <<>>
     /\ log[StageAt(log[p].pid, 2)].stdin # <<>>
     /\ log[StageAt(log[p].pid, 3)].stdin = log[StageAt(log[p].pid, 2)].stdin
     /\ log[StageAt(log[p].pid, 3)].enc = HostOut
     /\ out = log[StageAt(log[p].pid, 3)].stdin
     /\ \A k \in 1..3 : DirectStage(log[p].pid, k)

\* the exit code of the last command of the pipeline logged at position p:
\* of its last stage, or of the one command when that is a simple command
LastCommandCode(p) ==
  IF log[p].n >= 2 THEN log[StageEndAt(log[p].pid, log[p].n)].rc
  ELSE IF log[p - 1].e = "simple" THEN log[p - 1].rc
  ELSE log[p].last

\* C7: the exit code of a pipeline is the exit code of its last command,
\* whatever the earlier stages returned; negated with !, it is 1 if the last
\* command returned 0 and 0 if it returned anything else.
C7_PipelineExitCode ==
  \A p \in Pos : log[p].e = "pipe" =>
     log[p].rc = IF log[p].negation
                 THEN (IF LastCommandCode(p) = 0 THEN 1 ELSE 0)
                 ELSE LastCommandCode(p)

\* a negated two-stage pipeline has returned 0: its first stage returned 0
\* and its last stage returned 5
C7_Witness ==
  \E p \in Pos :
     /\ log[p].e = "pipe" /\ log[p].negation /\ log[p].n = 2
     /\ log[StageEndAt(log[p].pid, 1)].rc = 0
     /\ log[StageEndAt(log[p].pid, 2)].rc = 5
     /\ log[p].rc = 0
     /\ rc = 0

\* everything the handlers logged at positions lo..hi wrote to their stdout
RECURSIVE Wrote(_, _)
Wrote(lo, hi) ==
  IF lo > hi THEN <<>>
  ELSE (IF log[lo].e = "handler" THEN log[lo].wrote ELSE <<>>) \o Wrote(lo + 1, hi)

\* position i logs a simple command whose only redirection has an operator
\* of ops and a literal target
OneRedirect(i, ops) ==
  /\ log[i].e = "simple"
  /\ Len(log[i].cmd.redirects) = 1
  /\ log[i].cmd.redirects[1].op \in ops
  /\ log[i].cmd.redirects[1].name.type = "string"

\* that target as written, and resolved against the cwd the command found
TargetOf(i) == log[i].cmd.redirects[1].name.value

TargetPath(i) == resolvePath(log[i].cwd, TargetOf(i))

\* C8: for a simple command with an output redirection to a writable target
\* T whose handler ran, what the handler wrote to stdout is withheld from
\* the enclosing stdout and is afterwards the content of the file at T
\* resolved against cwd (with > and >|), or is appended to the previous
\* content of that file (with >>).
C8_OutputRedirection ==
  \A i \in Pos :
     (/\ OneRedirect(i, OutputOps)
      /\ log[i].cmd.hasName
      /\ HandlersIn(log[i].from, i) # {}
      /\ fsCanWrite(log[i].fsBefore, TargetPath(i))) =>
        LET T   == TargetPath(i)
            w   == Wrote(log[i].from + 1, i - 1)
            old == IF fsIsFile(log[i].fsBefore, T) THEN log[i].fsBefore[T].data
                   ELSE <<>>
        IN /\ log[i].outAfter = log[i].outBefore
           /\ fsIsFile(log[i].fsAfter, T)
           /\ log[i].fsAfter[T].data =
                IF log[i].cmd.redirects[1].op = <<">", ">">> THEN old \o w ELSE w

\* C9: when a simple command has an input redirection < T and T cannot be
\* read, the shell writes "mrsh: <T>: No such file or directory\n" to
\* stderr, the command returns 1 and no handler is invoked for it; when T
\* can be read, the stdin of its handler is exactly the content of T.
C9_InputRedirection ==
  \A i \in Pos : OneRedirect(i, {<<"<">>}) =>
     IF ~fsCanRead(log[i].fsBefore, TargetPath(i))
     THEN /\ log[i].errAfter = log[i].errBefore \o <<"mrsh: ">> \o TargetOf(i)
                                 \o <<": No such file or directory\n">>
          /\ log[i].rc = 1
          /\ HandlersIn(log[i].from, i) = {}
     ELSE \A h \in HandlersIn(log[i].from, i) :
             log[h].stdin = log[i].fsBefore[TargetPath(i)].data

\* position i logs a simple command whose expanded name is no shell alias,
\* no user function and no name of the registry
NotFoundCase(i) ==
  /\ log[i].e = "simple"
  /\ log[i].cmd.hasName
  /\ ~log[i].inAliases /\ ~log[i].inFunctions /\ ~log[i].inRegistry

\* what such a command does according to the claim
NotFoundOutcome(i) ==
  /\ log[i].errAfter = log[i].errBefore \o <<"mrsh: ">> \o log[i].name
                         \o <<": command not found\n">>
  /\ HandlersIn(log[i].from, i) = {}
  /\ log[i].rc = 127
  /\ log[i].lec = 127

\* every redirection of the command logged at i has a literal target that
\* can be read (for <) or written (for >, >| and >>)
RedirectsSucceed(i) ==
  \A k \in DOMAIN log[i].cmd.redirects :
     LET r == log[i].cmd.redirects[k]
         T == resolvePath(log[i].cwd, r.name.value)
     IN /\ r.name.type = "string"
        /\ r.op = <<"<">> => fsCanRead(log[i].fsBefore, T)
        /\ r.op \in OutputOps => fsCanWrite(log[i].fsBefore, T)

\* C10 as stated: a simple command whose expanded name is neither an alias,
\* nor a function, nor in the registry writes "mrsh: <name>: command not
\* found\n" to stderr, invokes no handler, returns 127, and 127 becomes
\* lastExitCode.
C10_CommandNotFound == \A i \in Pos : NotFoundCase(i) => NotFoundOutcome(i)

\* C10 amended: the same, for the commands all of whose redirections succeed.
C10_CommandNotFoundRedirectsOk ==
  \A i \in Pos : (NotFoundCase(i) /\ RedirectsSucceed(i)) => NotFoundOutcome(i)

\* an unknown command with an output redirection to a writable target has
\* returned 127 on a shell whose lastExitCode was not 127
C10_Witness ==
  \E i \in Pos :
     /\ NotFoundCase(i) /\ RedirectsSucceed(i)
     /\ log[i].cmd.redirects # <<>>
     /\ log[i].rc = 127
     /\ pre.lastExitCode # 127
     /\ lastExitCode = 127

\* the statements of the program given to execute(), none when it does not parse
TopStatements == IF parse(src).err THEN <<>> ELSE parse(src).node.commands

\* exit() was not called during the call
NoExit == \A i \in Pos : log[i].e # "exit"

\* the last and-or list that finished: the last statement of the program
LastList == MaxOf({i \in Pos : log[i].e = "lfin"})

\* the record of the simple command that made the handler call logged at i
SimpleOf(i) ==
  CHOOSE j \in Pos :
     /\ j > i /\ log[j].e = "simple" /\ log[j].how = "run" /\ log[j].from < i
     /\ \A k \in Pos : (i < k /\ k < j) => log[k].e # "simple"

\* C11: when a handler throws, "<name>: <message>\n" goes to stderr, the
\* command's exit code is 1, and the enclosing list goes on: unless exit was
\* called every statement of the program is started and execute() returns
\* the code of the last one, not a failure of its own.
C11_HandlerThrowContained ==
  Returned =>
    \A i \in Pos : (log[i].e = "handler" /\ log[i].threw) =>
       /\ log[i].errAfter = log[i].errBefore \o log[i].name \o <<": ">>
                              \o log[i].msg \o <<"\n">>
       /\ log[i].rc = 1
       /\ log[SimpleOf(i)].rc = 1
       /\ (NoExit /\ ~diverged) =>
            /\ \A k \in DOMAIN TopStatements :
                  \E j \in Pos : log[j].e = "stmt" /\ log[j].cmd = TopStatements[k]
            /\ rc = log[LastList].rc

\* a handler threw in the first statement of a program, the statement after
\* it ran and printed the code 1 the failed command left, and execute()
\* returned 0
C11_Witness ==
  /\ Returned
  /\ \E i \in Pos :
        /\ log[i].e = "handler" /\ log[i].threw /\ log[i].rc = 1
        /\ \E j \in Pos :
              /\ j > i /\ log[j].e = "handler" /\ log[j].name = Name.echo
              /\ log[j].args = << <<"1">> >>
  /\ err = Name.boom \o <<": ">> \o <<"boom failed">> \o <<"\n">>
  /\ rc = 0


\* ---- C12 --------------------------------------------------------------
SubstEvents == {k \in DOMAIN log : log[k].e = "subst"}

\* what the commands of a substitution's text write to stdout when they are
\* run on the shell S with stdout bound to a fresh buffer
captured(S, text) ==
  Let(newBuf(S), LAMBDA S1 :
    execute([S1 EXCEPT !.stdout = BufB(Len(S1.bufs))], text).bufs[Len(S1.bufs)])

\* C12: a command substitution $(P) or `P` in a word runs the commands of P
\* with stdout captured, so that nothing of it reaches the enclosing stdout,
\* and expands to the captured output less at most one trailing newline.
C12_CommandSubstitution ==
  phase = "done" =>
    \A k \in SubstEvents :
      /\ log[k].outAfter = log[k].outBefore
      /\ log[k].val = stripNewline(captured(log[k].shell, log[k].text))


\* ---- C13 --------------------------------------------------------------
SimpleEvents == {k \in DOMAIN log : log[k].e = "simple"}

\* the expansion of the source text of a word on the shell S
expansionOf(S, text) == expandWord(S, parseWordValue(text)).val

\* C13: a simple command made of assignments NAME=WORD only returns 0 and
\* leaves env[NAME] equal to the expansion of WORD (parameter references
\* replaced by their values, quoting removed), not to the raw text of WORD.
C13_AssignmentExpandsWord ==
  phase = "done" =>
    \A k \in SimpleEvents :
      log[k].how = "assign" /\ log[k].cmd.assignments # <<>> =>
        /\ log[k].rc = 0
        /\ \A j \in 1..Len(log[k].cmd.assignments) :
             LET a == log[log[k].from + j] IN
               /\ a.e = "assign"
               /\ a.name \in DOMAIN a.envAfter
               /\ a.envAfter[a.name] = expansionOf(a.shell, a.text)

\* ---- C14 --------------------------------------------------------------
\* C14: when a simple command has prefix assignments and a command name, the
\* environment the handler of the command receives maps each assigned NAME
\* to the value assigned to it (the last one, when NAME is assigned twice).
C14_PrefixAssignmentVisible ==
  phase = "done" =>
    \A k \in SimpleEvents :
      /\ log[k].how = "run"
      /\ log[k].cmd.assignments # <<>>
      /\ log[k - 1].e = "handler"
      => \A j \in 1..Len(log[k].cmd.assignments) :
           LET a == log[log[k].from + j] IN
             (\A j2 \in (j + 1)..Len(log[k].cmd.assignments) :
                log[k].cmd.assignments[j2].name # a.name)
             => /\ a.name \in DOMAIN log[k - 1].env
                /\ log[k - 1].env[a.name] = a.val


\* ---- C15 --------------------------------------------------------------
AliasEvents == {k \in SimpleEvents : log[k].how = "alias"}

\* C15: executing a simple command whose name is an alias terminates, and
\* the alias substitution is applied once for that invocation: the text the
\* substitution re-executes is not substituted again, even when the alias
\* value begins with the alias's own name.  (The alias values of the model
\* are single simple commands, so an alias substitution between the start
\* and the end of another one is a second substitution for the invocation.)
C15_AliasTerminates ==
  phase = "done" =>
    \A k \in AliasEvents :
      /\ ~diverged
      /\ \A j \in AliasEvents : ~(log[k].from < j /\ j < k)


\* ---- C16 --------------------------------------------------------------
\* the expansions ${X<op>w} and ${X:<op>w} of a variable name X
ParamEvents ==
  {k \in DOMAIN log : log[k].e = "param" /\ isIdentifier(log[k].name)}

\* the test T of the claim for a parameter event
TestT(ev) == ev.name \notin DOMAIN ev.envBefore \/ (ev.colon /\ ev.value = <<>>)

\* C16: with T = (X is not in the environment) or (the colon is present and
\* the value is empty), the operators -, = and ? take their word branch
\* exactly when T holds and otherwise yield X's value, and + yields the
\* expansion of the word exactly when T does not hold and "" otherwise.
C16_ConditionalTest ==
  phase = "done" =>
    \A k \in ParamEvents :
      LET ev == log[k] IN
        /\ ev.op \in {"minus", "equal"} =>
             ev.result = IF TestT(ev) THEN ev.argv ELSE ev.value
        /\ ev.op = "qmark" =>
             /\ TestT(ev) <=> ev.errAfter # ev.errBefore
             /\ ~TestT(ev) => ev.result = ev.value
        /\ ev.op = "plus" =>
             ev.result = IF TestT(ev) THEN <<>> ELSE ev.argv


\* ---- C17 --------------------------------------------------------------
\* the expansions ${X:=w}
AssignDefaultEvents == {k \in ParamEvents : log[k].op = "equal" /\ log[k].colon}

\* whether X is unset or empty before the parameter event
UnsetOrEmpty(ev) == ev.name \notin DOMAIN ev.envBefore \/ ev.envBefore[ev.name] = <<>>

\* nothing between the events k and j assigns a variable or restores the
\* environment
Undisturbed(k, j) ==
  \A m \in (k + 1)..(j - 1) :
    /\ log[m].e \notin {"assign", "subshell"}
    /\ log[m].e = "param" => log[m].envAfter = log[m].envBefore

\* C17: ${X:=d} with X unset or empty sets env[X] to d, changes no other
\* entry and yields d, and every later $X, in the same word, the same
\* command or a later command, yields d; with X set to a non-empty value
\* it yields that value and changes no environment entry.
C17_AssignDefault ==
  phase = "done" =>
    \A k \in AssignDefaultEvents :
      LET ev == log[k] IN
        IF UnsetOrEmpty(ev)
        THEN /\ ev.result = ev.argv
             /\ ev.envAfter = envSet(ev.envBefore, ev.name, ev.argv)
             /\ \A j \in ParamEvents :
                  j > k /\ log[j].name = ev.name /\ log[j].op = "none" /\ Undisturbed(k, j)
                  => log[j].result = ev.argv
        ELSE /\ ev.result = ev.envBefore[ev.name]
             /\ ev.envAfter = ev.envBefore

\* ${X:=d} was expanded with X unset, and a later command expanded $X
C17_Witness ==
  /\ phase = "done"
  /\ \E k \in AssignDefaultEvents :
       /\ UnsetOrEmpty(log[k])
       /\ log[k].argv # <<>>
       /\ \E j \in ParamEvents :
            /\ j > k /\ log[j].name = log[k].name /\ log[j].op = "none"
            /\ Undisturbed(k, j)
            /\ \E m \in (k + 1)..(j - 1) : log[m].e = "stmt"


\* ---- C18 --------------------------------------------------------------
\* the expansions ${name:?msg} with name unset or null
ErrorIfUnsetEvents ==
  {j \in ParamEvents : log[j].op = "qmark" /\ log[j].colon /\ log[j].hasArg
                       /\ UnsetOrEmpty(log[j])}

\* C18: when a word of a simple command contains ${name:?msg} and name is
\* unset or null, "mrsh: <name>: <msg>\n" is written to stderr, the
\* expansion yields "", the command still proceeds (its handler is invoked)
\* and the command's exit code is not 0.
C18_ErrorIfUnset ==
  phase = "done" =>
    \A k \in SimpleEvents : \A j \in ErrorIfUnsetEvents :
      log[k].from < j /\ j < k /\ log[k].inRegistry =>
        /\ log[j].errAfter = log[j].errBefore \o <<"mrsh: ">> \o log[j].name \o <<": ">>
                                              \o log[j].argv \o <<"\n">>
        /\ log[j].result = <<>>
        /\ log[k].how = "run" /\ log[k - 1].e = "handler"
        /\ log[k].rc # 0


\* ---- C19 --------------------------------------------------------------
\* the expansions ${X#p}, ${X##p}, ${X%p} and ${X%%p} with a pattern
StripEvents ==
  {k \in ParamEvents : log[k].op \in {"hash", "dhash", "percent", "dpercent"}
                       /\ log[k].hasArg}

\* whether the whole of str matches the glob pattern
GlobMatches(pattern, str) == regexMatch(globRegex(pattern), 1, str, 0, TRUE) >= 0

\* the lengths of the prefixes (of the suffixes) of str that match pattern
PrefixLengths(pattern, str) ==
  {n \in 0..Len(str) : GlobMatches(pattern, SubSeq(str, 1, n))}

SuffixLengths(pattern, str) ==
  {n \in 0..Len(str) : GlobMatches(pattern, SubSeq(str, Len(str) - n + 1, Len(str)))}

Shortest(lengths) == CHOOSE n \in lengths : \A m \in lengths : n <= m

Longest(lengths) == CHOOSE n \in lengths : \A m \in lengths : n >= m

\* C19: ${X#p} deletes the shortest prefix of X that matches the glob p and
\* ${X##p} the longest, ${X%p} deletes the shortest suffix that matches p
\* and ${X%%p} the longest, and X is returned unchanged when no prefix
\* (suffix) matches: for X = a:b:c, ${X#*:} is b:c, ${X##*:} is c, ${X%:*}
\* is a:b and ${X%%:*} is a.
C19_PatternRemoval ==
  phase = "done" =>
    \A k \in StripEvents :
      LET ev == log[k]
          str == ev.value
          P == PrefixLengths(ev.argv, str)
          Q == SuffixLengths(ev.argv, str)
      IN CASE ev.op = "hash" ->
                ev.result = IF P = {} THEN str
                            ELSE SubSeq(str, Shortest(P) + 1, Len(str))
           [] ev.op = "dhash" ->
                ev.result = IF P = {} THEN str
                            ELSE SubSeq(str, Longest(P) + 1, Len(str))
           [] ev.op = "percent" ->
                ev.result = IF Q = {} THEN str
                            ELSE SubSeq(str, 1, Len(str) - Shortest(Q))
           [] ev.op = "dpercent" ->
                ev.result = IF Q = {} THEN str
                            ELSE SubSeq(str, 1, Len(str) - Longest(Q))


\* ---- C20 --------------------------------------------------------------
\* the arithmetic expansions $(( ... ))
ArithEvents == {k \in DOMAIN log : log[k].e = "arith" /\ log[k].closed}

\* the integer literals the property ranges over
MaxLiteral == 9

Literals == (0 - MaxLiteral)..MaxLiteral

\* the exact integer result of a op b, the quotient truncated toward zero
IntegerResult(a, op, b) ==
  CASE op = "/" -> Trunc(a, b)
    [] op = "%" -> a - b * Trunc(a, b)
    [] op = "+" -> a + b
    [] op = "-" -> a - b
    [] op = "*" -> a * b

\* C20: for integer literals a and b with b # 0, $((a/b)) yields the decimal
\* representation of the quotient truncated toward zero (so $((-7/2)) is
\* -3), and $((a%b)), $((a+b)), $((a-b)) and $((a*b)) yield the exact
\* integer results.
C20_ArithmeticResult ==
  phase = "done" =>
    \A k \in ArithEvents : \A a \in Literals, b \in Literals :
      \A op \in {"/", "%", "+", "-", "*"} :
        /\ log[k].text = toStr(a) \o <<op>> \o toStr(b)
        /\ b # 0
        => log[k].result = toStr(IntegerResult(a, op, b))


\* ---- C21 --------------------------------------------------------------
\* if C1;then echo 1;elif C2;then echo 2;else echo 3;fi
ElifSource(c1, c2) ==
  <<"i","f"," ">> \o c1 \o <<";","t","h","e","n"," ","e","c","h","o"," ","1",";",
    "e","l","i","f"," ">> \o c2 \o <<";","t","h","e","n"," ","e","c","h","o"," ","2",
    ";","e","l","s","e"," ","e","c","h","o"," ","3",";","f","i">>

\* the names of the handlers invoked, in order
RECURSIVE HandlerNames(_)
HandlerNames(k) ==
  IF k > Len(log) THEN <<>>
  ELSE (IF log[k].e = "handler" THEN <<log[k].name>> ELSE <<>>) \o HandlerNames(k + 1)

\* C21: `if C1; then B1; elif C2; then B2; else B3; fi` parses without
\* error and runs B1 when C1 exits 0, otherwise B2 when C2 exits 0,
\* otherwise B3: exactly one body runs, and C2 is evaluated only when C1
\* exits nonzero.
C21_ElifChain ==
  phase = "done" =>
    \A c1 \in {Name.true, Name.false}, c2 \in {Name.true, Name.false} :
      src = ElifSource(c1, c2) =>
        /\ err = <<>>
        /\ HandlerNames(1) = IF c1 = Name.true THEN <<c1, Name.echo>>
                             ELSE <<c1, c2, Name.echo>>
        /\ out = IF c1 = Name.true THEN <<"1", "\n">>
                 ELSE IF c2 = Name.true THEN <<"2", "\n">>
                 ELSE <<"3", "\n">>


\* ---- C22 ----
\* the arguments name none of the forms of a required option of the command
missingRequired(name, args) ==
  \E k \in DOMAIN Options(name) :
    /\ Options(name)[k].required
    /\ \A i \in DOMAIN args :
          /\ args[i] # <<"-", Options(name)[k].short>>
          /\ ~startsWith(args[i], <<"-","-">> \o Options(name)[k].name)

\* C22: when the arguments of a registered command do not satisfy its
\* parameter schema (a required option is missing), the handler is not
\* invoked, a diagnostic is written to stderr and the exit code is 2
C22_SchemaValidation ==
  phase = "done" =>
    /\ \A k \in DOMAIN log :
          log[k].e = "handler" => ~missingRequired(log[k].name, log[k].args)
    /\ (src = Src_need /\ Name.need \in commands) => (rc = 2 /\ err # <<>>)


\* ---- C23 ----
\* an absolute, normalized path: "/" or "/s1/.../sk" with every segment
\* non-empty and neither "." nor ".."
Normalized(path) ==
  /\ Len(path) >= 1
  /\ path[1] = "/"
  /\ \/ Len(path) = 1
     \/ LET segs == split(SubSeq(path, 2, Len(path)))
        IN \A k \in DOMAIN segs : segs[k] \notin {<<>>, <<".">>, <<".", ".">>}

\* the cd handlers that ran in the last execute()
CdEvents == {k \in DOMAIN log : log[k].e = "handler" /\ log[k].name = Name.cd}

\* C23: after any sequence of cd commands (absolute and relative targets,
\* ".", "..", repeated and trailing slashes, "-", "~", succeeding or
\* failing) and subshells, cwd is absolute and normalized
C23_CwdNormalized == Normalized(cwd)

\* from /tmp, reached by an earlier execute(), `cd ..//user/./..; cd -;
\* cd /no; cd ~` has run: three cd succeeded, one failed, and cwd is the
\* home directory
C23_Witness ==
  /\ phase = "done"
  /\ src = Src_cd1
  /\ pre.cwd = <<"/","t","m","p">>
  /\ Cardinality({k \in CdEvents : log[k].rc = 0}) = 3
  /\ Cardinality({k \in CdEvents : log[k].rc = 1}) = 1
  /\ cwd = HomeUser


\* ---- C24 ----
\* C24: parse(s) returns a Program only when every token of s up to EOF
\* was consumed; at a token that cannot start or continue a command (a
\* stray `)`, `}`, `fi`, `done`, `then`, a reserved word after the
\* arguments, a word directly after `&`) it raises a ParseError
C24_ParseConsumesAll ==
  phase = "done" =>
    Let(parse(src), LAMBDA p : p.err \/ match(tokenize(src), p.i, "eof"))


\* ---- C25 ----
\* C25: the tokens nextToken() returns for s end with EOF; every token
\* before it consumed at least one character, the start offsets do not
\* decrease, and no offset exceeds the length of s
C25_LexerProgress ==
  phase = "done" =>
    Let(tokenize(src), LAMBDA tk :
      /\ Len(tk) >= 1
      /\ tk[Len(tk)].type = "eof"
      /\ \A k \in 1..(Len(tk) - 1) :
            /\ tk[k].type # "eof"
            /\ tk[k].next > tk[k].offset
            /\ tk[k].offset <= tk[k + 1].offset
      /\ \A k \in DOMAIN tk : tk[k].offset <= Len(src))


\* ---- C26 ----
\* C26: word expansion is sequential: the expansion of a child or argument
\* is complete before the next one begins, so the result of every
\* expansion is the one computed on the shell as the expansions before it
\* left it, without any effect of a later one (two command substitutions
\* of one command never run interleaved)
C26_SequentialExpansion ==
  phase = "done" =>
    \A k \in DOMAIN log :
      log[k].e = "arith" =>
        log[k].result = evaluateArithmetic(log[k].shell, log[k].expr)


\* ---- C27 ----
\* the handler call logged at i was made inside a stage after the first of
\* some pipeline
InLaterStage(i) ==
  \E s \in Pos, t \in Pos :
     /\ log[s].e = "stage" /\ log[s].i >= 2
     /\ log[t].e = "stageEnd" /\ log[t].pid = log[s].pid /\ log[t].i = log[s].i
     /\ s < i /\ i < t

\* the simple command that made the handler call logged at i has a `<`
HasLess(i) ==
  \E r \in DOMAIN log[SimpleOf(i)].cmd.redirects :
     log[SimpleOf(i)].cmd.redirects[r].op = <<"<">>

\* C27: a simple command that is not a later stage of a pipeline and has no
\* `<` redirection receives an empty stdin; the input a `< file` loaded for
\* an earlier command is never delivered to a later one
C27_StdinNotInherited ==
  (Returned /\ ~diverged) =>
    \A i \in Pos :
       (log[i].e = "handler" /\ ~InLaterStage(i) /\ ~HasLess(i))
         => log[i].stdin = <<>>


\* ---- C28 ----
\* C28: whenever a statement finishes, lastExitCode (the value of $? in the
\* next statement) is the exit code the statement returned, for a simple
\* command, an assignment-only command, a command whose `<` failed, a
\* negated pipeline and a compound command alike
C28_StatusTracksStatement ==
  (Returned /\ ~diverged) =>
    \A i \in Pos : log[i].e = "lfin" => log[i].lec = log[i].rc


\* ---- C29 ----
\* the redirections of the simple command that made the handler call logged
\* at i are all output redirections with a descriptor number other than 1
OnlyOtherFd(i) ==
  LET rs == log[SimpleOf(i)].cmd.redirects IN
    /\ rs /= <<>>
    /\ \A r \in DOMAIN rs :
          rs[r].op \in OutputOps /\ rs[r].ioNumber \notin {-1, 1}

\* C29: an output redirection with an explicit descriptor number other than 1
\* (`cmd 2> f`, `cmd 2>> f`) leaves the command's stdout alone: the handler
\* writes to the stdout of the enclosing command, not to the buffer that is
\* saved to f
C29_OtherFdKeepsStdout ==
  (Returned /\ ~diverged) =>
    \A i \in Pos :
       (log[i].e = "handler" /\ OnlyOtherFd(i))
         => log[i].outB = log[SimpleOf(i)].outB


\* ---- C30 ----
\* the value of the variable name in the map e, or the empty set when it is not set
envEntry(e, name) == IF name \in DOMAIN e THEN {e[name]} ELSE {}

====
